---- MODULE Spec2Model ----
(***************************************************************************)
(* Daywise: the AI-suggestion pipeline.                                    *)
(*                                                                         *)
(*   backend  src/backend/src/ai/ollama-service.ts   (OllamaService)       *)
(*            src/backend/src/routes/cleaning.ts      (aiRoute, l.307-494)  *)
(*   client   src/unnamed/part_000                    (AIService)           *)
(*                                                                         *)
(* Text is modelled as a sequence of tokens.  A token is one punctuation   *)
(* character ("-", "*", ".", ",", ":", " ", "\n"), one digit, or one whole  *)
(* word; substring tests of the code (includes, the regular expressions)   *)
(* are therefore decided at word granularity.  Numbers are integers.       *)
(***************************************************************************)
EXTENDS Integers, Sequences, FiniteSets, TLC

(***************************************************************************)
(* Bounds of the model.                                                    *)
(***************************************************************************)
\* largest number of lines of a completion handed to the response parser
MaxLines == 2
\* the counters of outbound calls and of replies stop counting here
MaxCount == 3
\* largest number of meals ever logged (the last serial id of user_meals)
MaxMeals == 2
\* largest number of questions sent in the nutrition chat
MaxQuestions == 3
\* largest number of shopping lists and of shopping items ever inserted
MaxLists == 2
MaxItems == 3
\* largest number of cleaning tasks ever created
MaxTasks == 1
\* useShoppingStore: largest number of lists, of items in the store, and the
\* last reading of Date.now()
MaxStoreLists == 2
MaxStoreItems == 2
MaxTime == 1
\* by-id routes: largest number of rows ever inserted, all tables together
MaxRows == 2

(***************************************************************************)
(* JavaScript values.                                                      *)
(***************************************************************************)
\* null / undefined where a string is expected: a reserved one-token text
Null == <<"<null>">>
\* an optional numeric field that is not present
Absent == -1

\* JS truthiness of a string value: null, undefined and "" are falsy
Truthy(s) == s # Null /\ s # <<>>
\* a || b on strings
OrElse(a, b) == IF Truthy(a) THEN a ELSE b
\* a || b on numbers: 0 and undefined are falsy
NumOr(a, b) == IF a = Absent \/ a = 0 THEN b ELSE a
\* Math.max / Math.min
Max(a, b) == IF a >= b THEN a ELSE b
Min(a, b) == IF a <= b THEN a ELSE b

(***************************************************************************)
(* String helpers (methods of String.prototype), on token sequences.       *)
(***************************************************************************)
Digits == {"1", "2", "3", "4"}
Whitespace == {" ", "\n"}

\* toLowerCase, token by token
LowerTok(t) ==
  CASE t = "Try" -> "try"
    [] t = "Make" -> "make"
    [] t = "Recipe" -> "recipe"
    [] t = "Breakfast" -> "breakfast"
    [] t = "Dinner" -> "dinner"
    [] OTHER -> t
ToLower(s) == [i \in 1..Len(s) |-> LowerTok(s[i])]

\* s.includes(word), after toLowerCase() of s
Includes(s, word) == \E i \in 1..Len(s) : s[i] = word

\* index of the first token of s satisfying membership in set T, 0 if none
FirstIn(s, T) ==
  IF \E i \in 1..Len(s) : s[i] \in T
  THEN CHOOSE i \in 1..Len(s) : s[i] \in T /\ \A j \in 1..(i-1) : s[j] \notin T
  ELSE 0

\* the longest prefix of s with no token of T
TakeUntil(s, T) ==
  LET i == FirstIn(s, T) IN IF i = 0 THEN s ELSE SubSeq(s, 1, i - 1)

\* s with its first n tokens removed
Drop(s, n) == SubSeq(s, n + 1, Len(s))

\* number of leading tokens of s that are in T
LeadingIn(s, T) ==
  IF \E i \in 1..Len(s) : s[i] \notin T
  THEN (CHOOSE i \in 1..Len(s) : s[i] \notin T /\ \A j \in 1..(i-1) : s[j] \in T) - 1
  ELSE Len(s)

\* number of trailing tokens of s that are in T
TrailingIn(s, T) ==
  IF \E i \in 1..Len(s) : s[i] \notin T
  THEN Len(s) - (CHOOSE i \in 1..Len(s) : s[i] \notin T /\ \A j \in (i+1)..Len(s) : s[j] \in T)
  ELSE Len(s)

\* s.trim()
Trim(s) ==
  IF LeadingIn(s, Whitespace) = Len(s) THEN <<>>
  ELSE SubSeq(s, LeadingIn(s, Whitespace) + 1, Len(s) - TrailingIn(s, Whitespace))

\* the value of a digit token and of a run of digit tokens
DigitValue(t) == CASE t = "1" -> 1 [] t = "2" -> 2 [] t = "3" -> 3 [] t = "4" -> 4 [] OTHER -> 0
RECURSIVE DigitsValue(_)
DigitsValue(ds) ==
  IF ds = <<>> THEN 0 ELSE 10 * DigitsValue(SubSeq(ds, 1, Len(ds) - 1)) + DigitValue(ds[Len(ds)])

\* parseInt(s): leading blanks are skipped, the longest run of digits is read
\* and whatever follows it is ignored; NaN when there is no digit to read
parseInt(s) ==
  LET t == Drop(s, LeadingIn(s, Whitespace))
      d == LeadingIn(t, Digits)
  IN IF d = 0 THEN [nan |-> TRUE, value |-> 0]
     ELSE [nan |-> FALSE, value |-> DigitsValue(SubSeq(t, 1, d))]
\* isNaN(n)
isNaN(n) == n.nan

\* s.split(sep) for a one-token separator
RECURSIVE SplitOn(_, _)
SplitOn(s, sep) ==
  LET i == FirstIn(s, {sep}) IN
  IF i = 0 THEN <<s>>
  ELSE <<SubSeq(s, 1, i - 1)>> \o SplitOn(Drop(s, i), sep)

\* parts.join(sep)
RECURSIVE Join(_, _)
Join(parts, sep) ==
  IF Len(parts) = 0 THEN <<>>
  ELSE IF Len(parts) = 1 THEN parts[1]
  ELSE parts[1] \o <<sep>> \o Join(Tail(parts), sep)

(***************************************************************************)
(* Response Parser: OllamaService.extractSuggestions and its helpers.      *)
(***************************************************************************)
\* /^\d+\.|^-|^\*/ : length of the list marker the line begins with, 0 if none
MarkerLen(line) ==
  IF Len(line) = 0 THEN 0
  ELSE IF line[1] \in {"-", "*"} THEN 1
  ELSE LET d == LeadingIn(line, Digits) IN
       IF d >= 1 /\ d < Len(line) /\ line[d + 1] = "." THEN d + 1 ELSE 0

\* the pattern applied to the trimmed line
IsListMarker_Trimmed(line) == MarkerLen(Trim(line)) > 0

\* line.match(/^\d+\.|^-|^\*/)
IsListMarker(line) == MarkerLen(line) > 0

\* line.replace(/^\d+\.|^-|^\*/, '').trim()
StripMarker(line) == Trim(Drop(line, MarkerLen(line)))

MealTypes == <<"breakfast", "lunch", "dinner", "snack">>

extractMealType(line) ==
  LET hit == {i \in 1..Len(MealTypes) : Includes(ToLower(line), MealTypes[i])} IN
  IF hit = {} THEN <<"meal">>
  ELSE <<MealTypes[CHOOSE i \in hit : \A j \in hit : i <= j]>>

\* the tokens a capture group [^,.\n]+ stops at
CaptureStop == {",", ".", "\n"}

\* match[1] of /recipe:?\s*([^,.\n]+)/i applied right after the word "recipe"
\* (rest = the text after it); Null when the pattern does not match here
CaptureAfterRecipe(rest) ==
  LET colon == IF Len(rest) > 0 /\ rest[1] = ":" THEN 1 ELSE 0
      r1 == Drop(rest, colon)
      ws == LeadingIn(r1, {" "})
      cap == TakeUntil(Drop(r1, ws), CaptureStop)
  IN IF cap # <<>> THEN cap
     ELSE IF ws >= 1 THEN <<" ">>        \* \s* gives one blank back to the group
     ELSE IF colon = 1 THEN <<":">>      \* :? gives the colon back to the group
     ELSE Null

\* match[1] of /make\s+([^,.\n]+)/i or /try\s+([^,.\n]+)/i right after the word
CaptureAfterVerb(rest) ==
  LET ws == LeadingIn(rest, {" "})
      cap == TakeUntil(Drop(rest, ws), CaptureStop)
  IN IF ws = 0 THEN Null
     ELSE IF cap # <<>> THEN cap
     ELSE IF ws >= 2 THEN <<" ">>        \* \s+ keeps one blank, gives one back
     ELSE Null

\* line.match(pattern): match[1] of the leftmost match, Null when none
MatchPattern(line, word) ==
  LET low == ToLower(line)
      Cap(i) == IF word = "recipe" THEN CaptureAfterRecipe(Drop(line, i))
                ELSE CaptureAfterVerb(Drop(line, i))
      hits == {i \in 1..Len(line) : low[i] = word /\ Cap(i) # Null}
  IN IF hits = {} THEN Null
     ELSE Cap(CHOOSE i \in hits : \A j \in hits : i <= j)

RecipePatterns == <<"recipe", "make", "try">>

extractRecipeName(line) ==
  LET hit == {k \in 1..Len(RecipePatterns) : MatchPattern(line, RecipePatterns[k]) # Null} IN
  IF hit = {} THEN Null
  ELSE Trim(MatchPattern(line, RecipePatterns[CHOOSE k \in hit : \A j \in hit : k <= j]))

extractItemName(line) ==
  OrElse(SplitOn(StripMarker(line), " ")[1], <<"item">>)

Categories == <<"groceries", "utilities", "transport", "entertainment">>

extractCategory(line) ==
  LET hit == {i \in 1..Len(Categories) : Includes(ToLower(line), Categories[i])} IN
  IF hit = {} THEN <<"general">>
  ELSE <<Categories[CHOOSE i \in hit : \A j \in hit : i <= j]>>

extractTaskName(line) ==
  LET words == SplitOn(StripMarker(line), " ") IN
  OrElse(Join(SubSeq(words, 1, Min(3, Len(words))), " "), <<"cleaning", " ", "task">>)

\* lines.filter(line => line.trim())
RECURSIVE FilterNonBlank(_)
FilterNonBlank(lines) ==
  IF lines = <<>> THEN <<>>
  ELSE (IF Trim(Head(lines)) # <<>> THEN <<Head(lines)>> ELSE <<>>)
       \o FilterNonBlank(Tail(lines))

\* response.split('\n').filter(line => line.trim())
ResponseLines(response) == FilterNonBlank(SplitOn(response, "\n"))

\* the record one list-marker line contributes, <<>> when it contributes none
RECURSIVE CollectSuggestions(_, _)
SuggestionOf(line, type) ==
  CASE type = "meal_planning" ->
         IF Truthy(extractRecipeName(line))
         THEN <<[meal |-> extractMealType(line),
                 recipe_name |-> extractRecipeName(line),
                 reasoning |-> Trim(line)]>>
         ELSE <<>>
    [] type = "shopping_optimization" ->
         <<[item |-> extractItemName(line), advice |-> Trim(line)]>>
    [] type = "budget_analysis" ->
         <<[category |-> extractCategory(line), advice |-> Trim(line)]>>
    [] type = "cleaning_schedule" ->
         <<[task |-> extractTaskName(line), advice |-> Trim(line)]>>
    [] OTHER -> <<>>

CollectSuggestions(lines, type) ==
  IF lines = <<>> THEN <<>>
  ELSE (IF IsListMarker(Head(lines)) THEN SuggestionOf(Head(lines), type) ELSE <<>>)
       \o CollectSuggestions(Tail(lines), type)

PromptTypes == {"meal_planning", "shopping_optimization", "budget_analysis", "cleaning_schedule"}

\* extractSuggestions without its last line's wrap of the whole response
extractSuggestions_NoWrap(response, type) ==
  IF type \in PromptTypes
  THEN CollectSuggestions(ResponseLines(response), type)
  ELSE <<[advice |-> response]>>

extractSuggestions(response, type) ==
  LET suggestions == IF type \in PromptTypes
                     THEN CollectSuggestions(ResponseLines(response), type)
                     ELSE <<[advice |-> response]>>
  IN IF Len(suggestions) > 0 THEN suggestions ELSE <<[advice |-> response]>>

\* response.split('\n\n')[0] || 'Local AI analysis completed'
extractReasoning(response) ==
  LET gaps == {i \in 1..(Len(response) - 1) : response[i] = "\n" /\ response[i + 1] = "\n"}
      first == IF gaps = {} THEN response
               ELSE SubSeq(response, 1, (CHOOSE i \in gaps : \A j \in gaps : i <= j) - 1)
  IN OrElse(first, <<"Local AI analysis completed">>)

\* parseOllamaResponse(data.response, type) throws a TypeError (undefined.split)
\* exactly when the body read from the LLM runtime has no response string
parseOllamaResponseThrows(response) == response = Null

\* the AiResponse parseOllamaResponse returns when it does not throw
parseOllamaResponse(response, type) ==
  [type |-> type,
   suggestions |-> extractSuggestions(response, type),
   reasoning |-> extractReasoning(response),
   confidence |-> 7]           \* 0.7, in tenths

(***************************************************************************)
(* Nutrition values.  A snapshot or target is a record of the five fields; *)
(* fiber is optional (Absent).  Undefined stands for a missing object.     *)
(***************************************************************************)
Undefined == [undefined |-> TRUE]
IsUndefined(v) == "undefined" \in DOMAIN v

Nutr(cal, pro, carb, fat, fib) ==
  [calories |-> cal, protein |-> pro, carbs |-> carb, fat |-> fat, fiber |-> fib]

\* what a clause of a rendered instruction is: a label and the numbers it prints
Clause(label, nums) == [clause |-> label, nums |-> nums]

(***************************************************************************)
(* Prompt Builder, client side: AIService.buildMealRecommendationPrompt.   *)
(***************************************************************************)
\* the deficit object with the fiber goal taken for the fiber deficit
Deficit_FiberTargetOnly(params) ==
  [calories |-> params.targets.calories - params.currentNutrition.calories,
   protein |-> params.targets.protein - params.currentNutrition.protein,
   carbs |-> params.targets.carbs - params.currentNutrition.carbs,
   fat |-> params.targets.fat - params.currentNutrition.fat,
   fiber |-> NumOr(params.targets.fiber, 30)]

\* the deficit object of buildMealRecommendationPrompt and of
\* getEnhancedFallbackRecommendations (the two compute it alike)
Deficit(params) ==
  [calories |-> params.targets.calories - params.currentNutrition.calories,
   protein |-> params.targets.protein - params.currentNutrition.protein,
   carbs |-> params.targets.carbs - params.currentNutrition.carbs,
   fat |-> params.targets.fat - params.currentNutrition.fat,
   fiber |-> NumOr(params.targets.fiber, 30) - NumOr(params.currentNutrition.fiber, 0)]

\* reading params.targets.calories throws when targets or currentNutrition is missing
ParamsComplete(params) ==
  ~IsUndefined(params.targets) /\ ~IsUndefined(params.currentNutrition)

\* the clause `Geef me aanbevelingen voor ${...}`
MealTypeClause(mealType) ==
  CASE mealType = "breakfast" -> "Geef me aanbevelingen voor ontbijt"
    [] mealType = "lunch" -> "Geef me aanbevelingen voor lunch"
    [] mealType = "dinner" -> "Geef me aanbevelingen voor diner"
    [] OTHER -> "Geef me aanbevelingen voor tussendoortje"

\* the text buildMealRecommendationPrompt returns when it does not throw
\* (it throws exactly when ParamsComplete(params) is false)
buildMealRecommendationPrompt(params) ==
  LET deficit == Deficit(params) IN
  <<Clause("Ik heb vandaag al .. gehad van mijn .. doel",
           <<params.currentNutrition.calories, params.targets.calories>>),
    Clause("Ik heb nog .. nodig",
           <<deficit.calories, deficit.protein, deficit.carbs, deficit.fat>>)>>
  \o (IF deficit.fiber > 0
      THEN <<Clause("Ook zou ik nog .. vezels moeten hebben", <<deficit.fiber>>)>>
      ELSE <<>>)
  \o (IF params.mealType # ""
      THEN <<Clause(MealTypeClause(params.mealType), <<>>)>>
      ELSE <<>>)
  \o <<Clause("Geef specifieke recepten", <<>>)>>

(***************************************************************************)
(* Fallback Catalog, client side.                                          *)
(***************************************************************************)
Rec(id, name, prepTime, difficulty, calories, protein, carbs, fat, mealType, sports) ==
  [id |-> id, name |-> name, prepTime |-> prepTime, difficulty |-> difficulty,
   calories |-> calories, protein |-> protein, carbs |-> carbs, fat |-> fat,
   mealType |-> mealType, sportsFriendly |-> sports]

BreakfastRecord ==
  Rec(<<"fallback-breakfast-1">>, <<"Havermout met Fruit">>, 5, 1, 340, 12, 52, 8, "breakfast", TRUE)
LunchRecord ==
  Rec(<<"fallback-lunch-1">>, <<"Volkoren Sandwich met Ei">>, 10, 1, 380, 18, 35, 16, "lunch", TRUE)
DinnerRecord ==
  Rec(<<"fallback-dinner-1">>, <<"Zalm met Zoete Aardappel">>, 25, 2, 450, 35, 38, 18, "dinner", TRUE)

\* the default branch answering the lunch record whatever the meal type
getFallbackMealRecommendations_LunchOnly(mealType) == <<LunchRecord>>

\* fallbacks[mealType || 'lunch'] || fallbacks.lunch
getFallbackMealRecommendations(mealType) ==
  CASE mealType = "breakfast" -> <<BreakfastRecord>>
    [] mealType = "dinner" -> <<DinnerRecord>>
    [] OTHER -> <<LunchRecord>>

\* mealType || 'lunch'
MealTypeOrLunch(mealType) == IF mealType # "" THEN mealType ELSE "lunch"

ProteinRecord(params, deficit) ==
  Rec(<<"fallback-protein-1">>, <<"Kipfilet met Quinoa">>, 20, 2,
      Min(deficit.calories, 450), 35, 40, 8, MealTypeOrLunch(params.mealType), TRUE)
FiberRecord(params, deficit) ==
  Rec(<<"fallback-fiber-1">>, <<"Volkoren Wrap met Bonen">>, 10, 1,
      Min(deficit.calories, 380), 15, 55, 12, MealTypeOrLunch(params.mealType), FALSE)
EnergyRecord(params, deficit) ==
  Rec(<<"fallback-energy-1">>, <<"Nederlandse Stamppot">>, 30, 2,
      Min(deficit.calories, 550), 22, 65, 18, "dinner", FALSE)

\* the rules evaluated fiber first
getEnhancedFallbackRecommendations_FiberFirst(params) ==
  LET deficit == Deficit(params)
      recommendations ==
        (IF deficit.fiber > 15 THEN <<FiberRecord(params, deficit)>> ELSE <<>>)
        \o (IF deficit.protein > 20 THEN <<ProteinRecord(params, deficit)>> ELSE <<>>)
        \o (IF deficit.calories > 500 THEN <<EnergyRecord(params, deficit)>> ELSE <<>>)
  IN IF Len(recommendations) = 0
     THEN getFallbackMealRecommendations(params.mealType)
     ELSE recommendations

\* the list getEnhancedFallbackRecommendations returns when it does not throw
\* (it throws exactly when ParamsComplete(params) is false)
getEnhancedFallbackRecommendations(params) ==
  LET deficit == Deficit(params)
      recommendations ==
        (IF deficit.protein > 20 THEN <<ProteinRecord(params, deficit)>> ELSE <<>>)
        \o (IF deficit.fiber > 15 THEN <<FiberRecord(params, deficit)>> ELSE <<>>)
        \o (IF deficit.calories > 500 THEN <<EnergyRecord(params, deficit)>> ELSE <<>>)
  IN IF Len(recommendations) = 0
     THEN getFallbackMealRecommendations(params.mealType)
     ELSE recommendations

(***************************************************************************)
(* Client-side parse of the backend's suggestions:                         *)
(* AIService.parseMealRecommendations and the estimate helpers.            *)
(***************************************************************************)
\* suggestion.f for a text field, undefined when the record has no such field
Field(s, f) == IF f \in DOMAIN s THEN s[f] ELSE Null
\* suggestion.f for a numeric field
NumField(s, f) == IF f \in DOMAIN s THEN s[f] ELSE Absent

HasAny(name, words) == \E w \in words : Includes(ToLower(name), w)

estimatePrepTime(recipeName) ==
  IF ~Truthy(recipeName) THEN 15
  ELSE IF HasAny(recipeName, {"smoothie", "yoghurt"}) THEN 5
  ELSE IF HasAny(recipeName, {"salad", "sandwich"}) THEN 10
  ELSE IF HasAny(recipeName, {"soup", "stew"}) THEN 45
  ELSE 20

estimateDifficulty(recipeName) ==
  IF ~Truthy(recipeName) THEN 2
  ELSE IF HasAny(recipeName, {"smoothie", "yoghurt"}) THEN 1
  ELSE IF HasAny(recipeName, {"roast", "stew"}) THEN 3
  ELSE 2

estimateCalories(recipeName) ==
  IF ~Truthy(recipeName) THEN 300
  ELSE IF HasAny(recipeName, {"salad"}) THEN 250
  ELSE IF HasAny(recipeName, {"smoothie"}) THEN 200
  ELSE IF HasAny(recipeName, {"soup"}) THEN 300
  ELSE 400

estimateProtein(recipeName) ==
  IF ~Truthy(recipeName) THEN 15
  ELSE IF HasAny(recipeName, {"chicken", "fish", "meat"}) THEN 25
  ELSE IF HasAny(recipeName, {"egg"}) THEN 20
  ELSE IF HasAny(recipeName, {"yoghurt"}) THEN 12
  ELSE 15

estimateCarbs(recipeName) ==
  IF ~Truthy(recipeName) THEN 30
  ELSE IF HasAny(recipeName, {"salad"}) THEN 15
  ELSE IF HasAny(recipeName, {"bread", "pasta"}) THEN 45
  ELSE 30

estimateFat(recipeName) ==
  IF ~Truthy(recipeName) THEN 12
  ELSE IF HasAny(recipeName, {"avocado", "nuts"}) THEN 18
  ELSE IF HasAny(recipeName, {"salmon", "fish"}) THEN 15
  ELSE 12

determineMealType(name) ==
  IF ~Truthy(name) THEN "lunch"
  ELSE IF HasAny(name, {"breakfast", "ontbijt"}) THEN "breakfast"
  ELSE IF HasAny(name, {"dinner", "diner"}) THEN "dinner"
  ELSE IF HasAny(name, {"snack", "tussendoortje"}) THEN "snack"
  ELSE "lunch"

isSportsFriendly(name) ==
  IF ~Truthy(name) THEN FALSE
  ELSE HasAny(name, {"protein", "recovery", "energy"})

\* the recommendation built from one suggestion (index counts from 0)
RecommendationOf(suggestion, index) ==
  LET recipe == Field(suggestion, "recipe_name")
      meal == Field(suggestion, "meal")
  IN Rec(<<"ai", ToString(index)>>,
         OrElse(recipe, OrElse(meal, <<"Maaltijdvoorstel">>)),
         NumOr(NumField(suggestion, "prep_time"), estimatePrepTime(recipe)),
         estimateDifficulty(recipe),
         NumOr(NumField(suggestion, "calories"), estimateCalories(recipe)),
         NumOr(NumField(suggestion, "protein"), estimateProtein(recipe)),
         NumOr(NumField(suggestion, "carbs"), estimateCarbs(recipe)),
         NumOr(NumField(suggestion, "fat"), estimateFat(recipe)),
         determineMealType(OrElse(meal, recipe)),
         isSportsFriendly(OrElse(recipe, Field(suggestion, "advice"))))

\* suggestions.forEach((suggestion, index) => ...) from position i on
RECURSIVE ParseFrom(_, _)
ParseFrom(suggestions, i) ==
  IF i > Len(suggestions) THEN <<>>
  ELSE (IF Truthy(Field(suggestions[i], "meal")) \/ Truthy(Field(suggestions[i], "recipe_name"))
        THEN <<RecommendationOf(suggestions[i], i - 1)>>
        ELSE <<>>)
       \o ParseFrom(suggestions, i + 1)

parseMealRecommendations(suggestions) == ParseFrom(suggestions, 1)

(***************************************************************************)
(* Prompt Builder, backend side: OllamaService.buildUserPrompt.            *)
(*                                                                         *)
(* A request body is                                                       *)
(*   [type, user_input, current_nutrition, nutrition_goals,                *)
(*    calendar_events, meals_today, dietary]                               *)
(* with the context flattened: current_nutrition and nutrition_goals are   *)
(* a nutrition record or Undefined, calendar_events is "absent", "empty",  *)
(* "wellformed" or "malformed" (an event without start_time, which the     *)
(* route's schema accepts), meals_today and dietary are "absent" or "list".*)
(***************************************************************************)
Body(type, input, cur, goals, events, meals, dietary) ==
  [type |-> type, user_input |-> input, current_nutrition |-> cur,
   nutrition_goals |-> goals, calendar_events |-> events,
   meals_today |-> meals, dietary |-> dietary]

\* event.start_time.toLocaleString(..) on an event without start_time: TypeError
buildUserPromptThrows(prompt) == prompt.calendar_events = "malformed"

\* the clauses `Nutrition today`, `Daily goals`, `Remaining today`
NutritionClauses(current, goals) ==
  <<Clause("Nutrition today",
           <<NumOr(current.calories, 0), NumOr(current.protein, 0),
             NumOr(current.carbs, 0), NumOr(current.fat, 0)>>)>>
  \o (IF IsUndefined(goals) THEN <<>>
      ELSE LET calorieGap == NumOr(goals.calories, 2200) - NumOr(current.calories, 0)
               proteinGap == NumOr(goals.protein, 150) - NumOr(current.protein, 0)
               carbGap == NumOr(goals.carbs, 250) - NumOr(current.carbs, 0)
               fatGap == NumOr(goals.fat, 80) - NumOr(current.fat, 0)
           IN <<Clause("Daily goals",
                       <<NumOr(goals.calories, 2200), NumOr(goals.protein, 150),
                         NumOr(goals.carbs, 250), NumOr(goals.fat, 80)>>),
                Clause("Remaining today",
                       <<Max(0, calorieGap), Max(0, proteinGap),
                         Max(0, carbGap), Max(0, fatGap)>>)>>)

\* the text buildUserPrompt returns when it does not throw
buildUserPrompt(prompt) ==
  <<Clause("Current date", <<>>), Clause("Location", <<>>)>>
  \o (IF IsUndefined(prompt.current_nutrition) THEN <<>>
      ELSE NutritionClauses(prompt.current_nutrition, prompt.nutrition_goals))
  \o (IF prompt.meals_today = "list" THEN <<Clause("Meals already eaten today", <<>>)>> ELSE <<>>)
  \o (IF prompt.calendar_events = "wellformed"
      THEN <<Clause("Upcoming calendar events", <<>>)>> ELSE <<>>)
  \o (IF prompt.dietary = "list" THEN <<Clause("Dietary preferences", <<>>)>> ELSE <<>>)
  \o <<Clause("User request", <<>>)>>
  \o prompt.user_input
  \o <<Clause("Focus on practical meal suggestions", <<>>)>>

(***************************************************************************)
(* REST facade: getFallbackSuggestions and the two reply shapes of         *)
(* POST /ai/suggestions.                                                   *)
(***************************************************************************)
getFallbackSuggestions(type) ==
  CASE type = "meal_planning" ->
         <<[meal |-> <<"lunch">>, recipe_name |-> <<"Dutch Broodjes">>,
            reasoning |-> <<"Quick and traditional Dutch lunch option">>, prep_time |-> 10],
           [meal |-> <<"dinner">>, recipe_name |-> <<"Stamppot">>,
            reasoning |-> <<"Classic Dutch comfort food for dinner">>, prep_time |-> 30]>>
    [] type = "shopping_optimization" ->
         <<[item |-> <<"Seasonal vegetables">>,
            advice |-> <<"Check local seasonal produce for best prices">>,
            category |-> <<"groceries">>],
           [item |-> <<"Store brands">>,
            advice |-> <<"AH Basic products offer good value">>,
            category |-> <<"groceries">>]>>
    [] type = "budget_analysis" ->
         <<[category |-> <<"groceries">>,
            advice |-> <<"Track weekly spending and compare with Dutch averages">>]>>
    [] type = "cleaning_schedule" ->
         <<[task |-> <<"Weekly cleaning">>,
            advice |-> <<"Plan cleaning around your schedule for consistency">>]>>
    [] OTHER ->
         <<[advice |-> <<"AI services temporarily unavailable. Please try again later.">>]>>

\* no reply sent yet
NoReply == [status |-> 0]

\* reply.send({success: true, data: {...response, provider: 'ollama'}})
SuccessReply(response) ==
  [status |-> 200, success |-> TRUE,
   data |-> [type |-> response.type, suggestions |-> response.suggestions,
             reasoning |-> response.reasoning, confidence |-> response.confidence,
             provider |-> "ollama"]]

\* reply.status(503).send({success: false, error, fallback_suggestions})
UnavailableReply(type) ==
  [status |-> 503, success |-> FALSE,
   error |-> "AI service temporarily unavailable",
   fallback_suggestions |-> getFallbackSuggestions(type)]

(***************************************************************************)
(* Inputs of the model.                                                    *)
(***************************************************************************)
\* the concurrent requests
Req == {"r1", "r2"}

\* daily goals as MealsScreen passes them, with and without a fiber goal
Goals == Nutr(2200, 150, 250, 80, 25)
GoalsNoFiber == Nutr(2200, 150, 250, 80, Absent)
\* intake close to the goals: every deficit below its threshold
NearGoals == Nutr(2100, 140, 240, 75, 20)
\* only the protein threshold crossed (deficits 25 g protein, 5 g fiber, 100 kcal)
LowProtein == Nutr(2100, 125, 240, 75, 20)
\* every threshold crossed
LowAll == Nutr(1000, 60, 100, 30, Absent)
\* more calories, carbs, fat and fiber eaten than the goals, protein still short
Exceeded == Nutr(2500, 100, 300, 90, 40)

Params(cur, tgt, mealType, events) ==
  [currentNutrition |-> cur, targets |-> tgt, mealType |-> mealType, calendarEvents |-> events]

\* the arguments of getMealRecommendations; the last one is the call of
\* MealsScreen.getAIRecommendations, which passes current_nutrition and
\* nutrition_goals instead of currentNutrition and targets
ClientParams ==
  { Params(NearGoals, Goals, "breakfast", "absent"),
    Params(LowProtein, Goals, "", "wellformed"),
    Params(LowAll, GoalsNoFiber, "snack", "absent"),
    Params(Exceeded, Goals, "", "malformed"),
    Params(Exceeded, Goals, "dinner", "absent"),
    Params(Undefined, Undefined, "", "absent") }

\* arguments of the Fallback Catalog: intakes on both sides of each threshold,
\* measured against Goals (calorie deficits 600, 500, 100, -300; protein
\* deficits 25, 20, 10; fiber deficits 25, 15, 5), for every meal type
CatalogCalories == {1600, 1700, 2100, 2500}
CatalogProtein == {125, 130, 140}
CatalogFiber == {Absent, 10, 20}
CatalogMealTypes == {"", "breakfast", "lunch", "dinner", "snack"}
CatalogParams ==
  { Params(Nutr(c, p, 240, 75, f), Goals, m, "absent") :
      c \in CatalogCalories, p \in CatalogProtein, f \in CatalogFiber, m \in CatalogMealTypes }

\* users and days of the meal log
Users == {1, 2}
Days == {"today", "yesterday"}
\* a meal logged without nutrition / with nutrition (fiber is optional)
Porridge == Nutr(300, 20, 30, 10, Absent)
\* bodies of POST /meals the route's schema accepts (every number >= 0):
\* [user_id, logged_at, nutrition]
LogBodies ==
  { [user_id |-> 1, logged_at |-> "today", nutrition |-> Porridge],
    [user_id |-> 1, logged_at |-> "today", nutrition |-> Undefined],
    [user_id |-> 2, logged_at |-> "today", nutrition |-> Porridge],
    [user_id |-> 1, logged_at |-> "yesterday", nutrition |-> Porridge] }
\* bodies of PUT /meals/:id, a route without a schema: any nutrition object
UpdateBodies ==
  { [nutrition |-> Nutr(400, 25, 40, 15, 6)],
    [nutrition |-> Nutr(-200, 10, 20, 5, Absent)] }

\* the free text of a request posted without the mobile client
PlainInput == <<Clause("user input", <<>>)>>

\* bodies posted straight to POST /ai/suggestions
DirectBodies ==
  { Body("meal_planning", PlainInput, Exceeded, Goals, "wellformed", "list", "list"),
    Body("shopping_optimization", PlainInput, Undefined, Undefined, "absent", "absent", "absent"),
    Body("budget_analysis", PlainInput, NearGoals, Undefined, "malformed", "absent", "absent"),
    Body("cleaning_schedule", PlainInput, Undefined, Undefined, "empty", "absent", "list") }

\* how an outbound HTTP call ends: a success status, another status, no answer
HttpOutcomes == {"ok", "not_ok", "network_error"}

\* completions of the LLM runtime used in the pipeline
PlainText == <<"eat", " ", "more", " ", "vegetables">>
OneRecipe == <<"-", " ", "Try", " ", "chicken", " ", "soup">>
TwoBullets == <<"1", ".", " ", "buy", " ", "groceries", "\n",
                "*", " ", "recipe", ":", " ", "salad", ",", " ", "for", " ", "dinner">>
LlmCompletions == {PlainText, OneRecipe, TwoBullets}

\* what reading the body of a 200 answer of POST /api/generate gives:
\* response.json() rejects, or JSON with or without a response string
NoData == [kind |-> "none"]
Unreadable == [kind |-> "unreadable"]
Json(response) == [kind |-> "json", response |-> response]
BodyOutcomes == {Unreadable, Json(Null)} \cup {Json(t) : t \in LlmCompletions}

\* lines a completion handed to the response parser is made of
ParserLines ==
  { <<"eat", " ", "vegetables">>,
    <<"-", " ", "Try", " ", "soup">>,
    <<"1", ".", " ", "buy", " ", "groceries">>,
    <<" ", "-", " ", "make", " ", "salad">>,
    <<"1", " ", "egg">>,
    <<"*", " ", "recipe", ":", " ", "salad", ",", " ", "dinner">>,
    <<" ">> }

Completions ==
  {Join(ls, "\n") : ls \in UNION {[1..n -> ParserLines] : n \in 0..MaxLines}}

(***************************************************************************)
(* State.                                                                  *)
(***************************************************************************)
VARIABLES
  pc,         \* where each request is
  origin,     \* "client" (getMealRecommendations) or "direct" (a bare POST)
  params,     \* the argument of getMealRecommendations
  body,       \* the body posted to /ai/suggestions
  prompt,     \* the handler's local `prompt`
  llmPrompt,  \* the user prompt sent in POST /api/generate
  probe,      \* how the request's GET /api/tags ended
  gen,        \* how the request's POST /api/generate ended
  data,       \* what reading the generate answer's body gave
  calls,      \* outbound calls issued for the request
  reply,      \* the reply of the handler
  replies,    \* number of replies sent for the request
  result,     \* what getMealRecommendations returned
  trace,      \* the pipeline states the handler went through
  healthy,    \* what checkHealth() returned to the handler
  genResult,  \* how generateSuggestions(prompt) ended
  parserIn,   \* the last arguments of extractSuggestions
  parserOut,  \* and what it returned
  catalogIn,  \* the last argument of getEnhancedFallbackRecommendations
  catalogOut, \* and what it returned
  meals,      \* the rows of table user_meals
  nextId,     \* the next value of the table's serial id
  summary,    \* the last answer of GET /meals/user/:user_id/nutrition
  messages,     \* NutritionChatScreen: the chat messages
  inputMessage, \* the text of the input field
  isLoading,    \* the loading flag
  inFlight,     \* the questions whose chatNutritionAdvice call is pending
  asked,        \* number of questions sent so far
  dbLists,      \* table shopping_lists: the ids of its rows
  dbItems,      \* table shopping_items: rows [id, list_id]
  nextListId,   \* the next serial id of shopping_lists
  nextItemId,   \* the next serial id of shopping_items
  del,          \* the DELETE /shopping/:id request being served
  tasks,        \* table cleaning_tasks
  nextTaskId,   \* the next serial id of cleaning_tasks
  clock,        \* the last time the server read, in hours since 1 January
  patched,      \* the last reply of PATCH /cleaning/:id/complete
  lists,         \* useShoppingStore: the shopping lists, in order
  currentListId, \* the id of the current list, or NullId
  dateNow,       \* the last reading of Date.now()
  stats,         \* what useShoppingStats returned at the last render
  storeOp,       \* the last call of the store and what it was given
  stored,        \* the rows of recipes, user_meals, expenses, cleaning_tasks, shopping_items
  serial,        \* the next serial id of each of these tables
  answer         \* the last reply of a by-id update or delete route

pipelineVars ==
  <<pc, origin, params, body, prompt, llmPrompt, probe, gen, data, calls,
    reply, replies, result, trace, healthy, genResult>>
parserVars == <<parserIn, parserOut>>
catalogVars == <<catalogIn, catalogOut>>
mealVars == <<meals, nextId, summary>>
chatVars == <<messages, inputMessage, isLoading, inFlight, asked>>
shopVars == <<dbLists, dbItems, nextListId, nextItemId, del>>
taskVars == <<tasks, nextTaskId, clock, patched>>
storeVars == <<lists, currentListId, dateNow, stats, storeOp>>
byIdVars == <<stored, serial, answer>>
unitVars ==
  <<parserVars, catalogVars, mealVars, chatVars, shopVars, taskVars, storeVars,
    byIdVars>>
\* what an action of one part leaves alone: every other part
notParser == <<pipelineVars,
  catalogVars, mealVars, chatVars, shopVars, taskVars, storeVars,
  byIdVars>>
notCatalog == <<pipelineVars,
  parserVars, mealVars, chatVars, shopVars, taskVars, storeVars,
  byIdVars>>
notMeals == <<pipelineVars,
  parserVars, catalogVars, chatVars, shopVars, taskVars, storeVars,
  byIdVars>>
notChat == <<pipelineVars,
  parserVars, catalogVars, mealVars, shopVars, taskVars, storeVars,
  byIdVars>>
notShop == <<pipelineVars,
  parserVars, catalogVars, mealVars, chatVars, taskVars, storeVars,
  byIdVars>>
notTasks == <<pipelineVars,
  parserVars, catalogVars, mealVars, chatVars, shopVars, storeVars,
  byIdVars>>
notStore ==
  <<pipelineVars, parserVars, catalogVars, mealVars, chatVars, shopVars, taskVars,
    byIdVars>>
notById ==
  <<pipelineVars, parserVars, catalogVars, mealVars, chatVars, shopVars, taskVars,
    storeVars>>
vars == <<pipelineVars, unitVars>>

NoParams == [none |-> TRUE]
NoBody == [none |-> TRUE]
NoResult == [outcome |-> "none", recs |-> <<>>]
\* checkHealth() not called yet / generateSuggestions(prompt) not ended yet
NotProbed == [returned |-> FALSE, value |-> FALSE]
NoGenerate == [outcome |-> "none"]
\* GET .../nutrition not answered yet
NoSummary == [status |-> 0]
\* a chat message: its type and the question (0: none) it asks or answers
ChatMessage(type, question, content) == [type |-> type, question |-> question, content |-> content]
\* PATCH /cleaning/:id/complete has not replied yet
NoPatch == [status |-> 0]
\* no DELETE /shopping/:id is being served
NoDelete == [pc |-> "idle", id |-> 0, status |-> 0, removed |-> {}]
\* currentListId: null
NullId == <<>>
\* what useShoppingStats returns without a current list
NoStats == [total |-> 0, checked |-> 0, remaining |-> 0]
\* no call of the store yet
NoStoreOp == [op |-> "none", listId |-> <<>>, current |-> <<>>]
\* the tables that have by-id update and delete routes
Resources == {"recipes", "user_meals", "expenses", "cleaning_tasks", "shopping_items"}
\* no by-id route has replied yet
NoAnswer == [status |-> 0]
\* the message the screen starts with
welcomeMessage == ChatMessage("assistant", 0, <<"Hallo">>)

Init ==
  /\ pc = [r \in Req |-> "idle"]
  /\ origin = [r \in Req |-> "none"]
  /\ params = [r \in Req |-> NoParams]
  /\ body = [r \in Req |-> NoBody]
  /\ prompt = [r \in Req |-> NoBody]
  /\ llmPrompt = [r \in Req |-> <<>>]
  /\ probe = [r \in Req |-> "none"]
  /\ gen = [r \in Req |-> "none"]
  /\ data = [r \in Req |-> NoData]
  /\ calls = [r \in Req |-> [probe |-> 0, generate |-> 0]]
  /\ reply = [r \in Req |-> NoReply]
  /\ replies = [r \in Req |-> 0]
  /\ result = [r \in Req |-> NoResult]
  /\ trace = [r \in Req |-> <<>>]
  /\ healthy = [r \in Req |-> NotProbed]
  /\ genResult = [r \in Req |-> NoGenerate]
  /\ parserIn = [text |-> <<>>, type |-> "none"]
  /\ parserOut = <<>>
  /\ catalogIn = NoParams
  /\ catalogOut = <<>>
  /\ meals = {}
  /\ nextId = 1
  /\ summary = NoSummary
  /\ messages = <<welcomeMessage>>
  /\ inputMessage = <<>>
  /\ isLoading = FALSE
  /\ inFlight = {}
  /\ asked = 0
  /\ dbLists = {}
  /\ dbItems = {}
  /\ nextListId = 1
  /\ nextItemId = 1
  /\ del = NoDelete
  /\ tasks = {}
  /\ nextTaskId = 1
  /\ clock = 0
  /\ patched = NoPatch
  /\ lists = <<>>
  /\ currentListId = NullId
  /\ dateNow = 0
  /\ stats = NoStats
  /\ storeOp = NoStoreOp
  /\ stored = [res \in Resources |-> {}]
  /\ serial = [res \in Resources |-> 1]
  /\ answer = NoAnswer

(***************************************************************************)
(* The pieces of the handler and of the client the actions are made of.    *)
(***************************************************************************)
Bump(n) == IF n < MaxCount THEN n + 1 ELSE n

\* checkHealth answering true for whatever status the runtime answers with
checkHealth_AnyStatus(outcome) == outcome # "network_error"

\* checkHealth whose catch block returns true
checkHealth_CatchTrue(outcome) == outcome \in {"ok", "network_error"}

\* OllamaService.checkHealth: response.ok, false when fetch rejects
checkHealth(outcome) == outcome = "ok"

\* generateSuggestions with no `if (!response.ok)`: only a rejected fetch fails
generateFailed_StatusIgnored(outcome) == outcome = "network_error"

\* generateSuggestions, `if (!response.ok) throw`, and fetch rejecting
generateFailed(outcome) == outcome # "ok"

\* how generateSuggestions ends: its catch block rethrows every error as one
\* Error, otherwise it returns the AiResponse parsed from data.response
generateThrows ==
  [outcome |-> "threw", error |-> "Failed to generate AI suggestions with local LLM"]
generateReturns(response) == [outcome |-> "returned", value |-> response]

\* fetch(`${baseUrl}/api/tags`) and fetch(`${baseUrl}/api/generate`, ..)
IssueProbe(c) == [c EXCEPT !.probe = Bump(@)]
\* the generate call issued a second time
IssueGenerate_Twice(c) == [c EXCEPT !.generate = Bump(Bump(@))]
IssueGenerate(c) == [c EXCEPT !.generate = Bump(@)]

\* the prompt kept in a field of the one OllamaService instance, which the
\* handler of another request overwrites
PromptOf_Shared(r) ==
  IF \E o \in Req \ {r} : prompt[o] # NoBody
  THEN prompt[CHOOSE o \in Req \ {r} : prompt[o] # NoBody]
  ELSE prompt[r]

\* the prompt generateSuggestions(prompt) works on: the handler's own local
PromptOf(r) == prompt[r]

\* a catch block that logs and sends nothing
routeUnavailable_Silent(type) == [sent |-> 0, reply |-> NoReply]

\* what the handler does when the probe is unhealthy, and in its catch block:
\* one reply, the 503 with the fallbacks of the requested type
routeUnavailable(type) == [sent |-> 1, reply |-> UnavailableReply(type)]

\* what the handler does when generateSuggestions returned
routeSuccess(response) == [sent |-> 1, reply |-> SuccessReply(response)]

\* response.ok on the client
ResponseOk(rep) == rep.status >= 200 /\ rep.status <= 299

\* a catch block returning [], as the one of getQuickMealSuggestions does
ClientCatch_Empty(p) == [outcome |-> "returned", recs |-> <<>>]

\* the catch block of getMealRecommendations
ClientCatch(p) ==
  IF ParamsComplete(p)
  THEN [outcome |-> "returned", recs |-> getEnhancedFallbackRecommendations(p)]
  ELSE [outcome |-> "threw", recs |-> <<>>]   \* TypeError out of the catch block

\* the prompt getMealRecommendations posts (JSON.stringify(prompt))
ClientBody(p) ==
  Body("meal_planning", buildMealRecommendationPrompt(p), p.currentNutrition, p.targets,
       IF p.calendarEvents = "absent" THEN "empty" ELSE p.calendarEvents,
       "absent", "list")

\* the handler ends: `out` is what it sends, `steps` the pipeline states passed
Finish(r, out, steps) ==
  /\ reply' = [reply EXCEPT ![r] = out.reply]
  /\ replies' = [replies EXCEPT ![r] = IF out.sent > 0 THEN Bump(@) ELSE @]
  /\ pc' = [pc EXCEPT ![r] = IF out.sent > 0 THEN "replied" ELSE "hung"]
  /\ trace' = [trace EXCEPT ![r] = @ \o steps]

(***************************************************************************)
(* Actions.                                                                *)
(***************************************************************************)
\* AIService.getMealRecommendations(p), up to its first await
GetMealRecommendations(r, p) ==
  /\ pc[r] = "idle"
  /\ origin' = [origin EXCEPT ![r] = "client"]
  /\ params' = [params EXCEPT ![r] = p]
  /\ IF ParamsComplete(p)
     THEN /\ body' = [body EXCEPT ![r] = ClientBody(p)]
          /\ pc' = [pc EXCEPT ![r] = "posted"]
          /\ UNCHANGED result
     ELSE \* buildMealRecommendationPrompt throws; the catch block runs
          /\ result' = [result EXCEPT ![r] = ClientCatch(p)]
          /\ pc' = [pc EXCEPT ![r] = "returned"]
          /\ UNCHANGED body
  /\ UNCHANGED <<prompt, llmPrompt, probe, gen, data, calls, reply, replies, trace,
                 healthy, genResult, unitVars>>

\* some other HTTP client posts body b
PostSuggestions(r, b) ==
  /\ pc[r] = "idle"
  /\ origin' = [origin EXCEPT ![r] = "direct"]
  /\ body' = [body EXCEPT ![r] = b]
  /\ pc' = [pc EXCEPT ![r] = "posted"]
  /\ UNCHANGED <<params, prompt, llmPrompt, probe, gen, data, calls, reply, replies,
                 result, trace, healthy, genResult, unitVars>>

\* the handler starts: builds `prompt`, calls checkHealth
HandlerStart(r) ==
  /\ pc[r] = "posted"
  /\ prompt' = [prompt EXCEPT ![r] = body[r]]
  /\ calls' = [calls EXCEPT ![r] = IssueProbe(@)]
  /\ pc' = [pc EXCEPT ![r] = "probing"]
  /\ trace' = [trace EXCEPT ![r] = <<"BUILD_PROMPT", "HEALTH_CHECK">>]
  /\ UNCHANGED <<origin, params, body, llmPrompt, probe, gen, data, reply, replies,
                 result, healthy, genResult, unitVars>>

\* GET /api/tags ends; the handler goes on to generateSuggestions or replies 503
HealthReturns(r, outcome) ==
  /\ pc[r] = "probing"
  /\ probe' = [probe EXCEPT ![r] = outcome]
  /\ healthy' = [healthy EXCEPT ![r] = [returned |-> TRUE, value |-> checkHealth(outcome)]]
  /\ IF checkHealth(outcome)
     THEN IF buildUserPromptThrows(PromptOf(r))
          THEN /\ genResult' = [genResult EXCEPT ![r] = generateThrows]
               /\ Finish(r, routeUnavailable(body[r].type), <<"FALLBACK", "DONE">>)
               /\ UNCHANGED <<llmPrompt, calls>>
          ELSE /\ llmPrompt' = [llmPrompt EXCEPT ![r] = buildUserPrompt(PromptOf(r))]
               /\ calls' = [calls EXCEPT ![r] = IssueGenerate(@)]
               /\ pc' = [pc EXCEPT ![r] = "generating"]
               /\ trace' = [trace EXCEPT ![r] = @ \o <<"CALL_LLM">>]
               /\ UNCHANGED <<reply, replies, genResult>>
     ELSE /\ Finish(r, routeUnavailable(body[r].type), <<"FALLBACK", "DONE">>)
          /\ UNCHANGED <<llmPrompt, calls, genResult>>
  /\ UNCHANGED <<origin, params, body, prompt, gen, data, result, unitVars>>

\* POST /api/generate ends
GenerateReturns(r, outcome) ==
  /\ pc[r] = "generating"
  /\ gen' = [gen EXCEPT ![r] = outcome]
  /\ IF generateFailed(outcome)
     THEN /\ genResult' = [genResult EXCEPT ![r] = generateThrows]
          /\ Finish(r, routeUnavailable(body[r].type), <<"FALLBACK", "DONE">>)
     ELSE /\ pc' = [pc EXCEPT ![r] = "reading"]
          /\ UNCHANGED <<reply, replies, trace, genResult>>
  /\ UNCHANGED <<origin, params, body, prompt, llmPrompt, probe, data, calls, result,
                 healthy, unitVars>>

\* response.json() ends; parseOllamaResponse runs on what it gave
BodyReturns(r, d) ==
  /\ pc[r] = "reading"
  /\ data' = [data EXCEPT ![r] = d]
  /\ IF d.kind = "unreadable"
     THEN /\ genResult' = [genResult EXCEPT ![r] = generateThrows]
          /\ Finish(r, routeUnavailable(body[r].type), <<"FALLBACK", "DONE">>)
     ELSE IF parseOllamaResponseThrows(d.response)
     THEN /\ genResult' = [genResult EXCEPT ![r] = generateThrows]
          /\ Finish(r, routeUnavailable(body[r].type), <<"PARSE", "FALLBACK", "DONE">>)
     ELSE /\ genResult' = [genResult EXCEPT ![r] =
                 generateReturns(parseOllamaResponse(d.response, PromptOf(r).type))]
          /\ Finish(r, routeSuccess(parseOllamaResponse(d.response, PromptOf(r).type)),
                    <<"PARSE", "DONE">>)
  /\ UNCHANGED <<origin, params, body, prompt, llmPrompt, probe, gen, calls, result,
                 healthy, unitVars>>

\* the client's fetch resolves with the handler's reply
ClientReceives(r) ==
  /\ pc[r] = "replied"
  /\ origin[r] = "client"
  /\ result' = [result EXCEPT ![r] =
        IF ResponseOk(reply[r])
        THEN [outcome |-> "returned",
              recs |-> parseMealRecommendations(reply[r].data.suggestions)]
        ELSE ClientCatch(params[r])]
  /\ pc' = [pc EXCEPT ![r] = "returned"]
  /\ UNCHANGED <<origin, params, body, prompt, llmPrompt, probe, gen, data, calls,
                 reply, replies, trace, healthy, genResult, unitVars>>

\* the client's fetch rejects: the request or the reply is lost
ClientFetchFails(r) ==
  /\ pc[r] \in {"posted", "replied"}
  /\ origin[r] = "client"
  /\ result' = [result EXCEPT ![r] = ClientCatch(params[r])]
  /\ pc' = [pc EXCEPT ![r] = "returned"]
  /\ UNCHANGED <<origin, params, body, prompt, llmPrompt, probe, gen, data, calls,
                 reply, replies, trace, healthy, genResult, unitVars>>

Next ==
  \E r \in Req :
    \/ \E p \in ClientParams : GetMealRecommendations(r, p)
    \/ \E b \in DirectBodies : PostSuggestions(r, b)
    \/ HandlerStart(r)
    \/ \E o \in HttpOutcomes : HealthReturns(r, o)
    \/ \E o \in HttpOutcomes : GenerateReturns(r, o)
    \/ \E d \in BodyOutcomes : BodyReturns(r, d)
    \/ ClientReceives(r)
    \/ ClientFetchFails(r)

Spec == Init /\ [][Next]_vars

\* every outbound call of the handler eventually returns or errors
OutboundReturns(r) ==
  \/ \E o \in HttpOutcomes : HealthReturns(r, o)
  \/ \E o \in HttpOutcomes : GenerateReturns(r, o)
  \/ \E d \in BodyOutcomes : BodyReturns(r, d)

LiveSpec == Spec /\ \A r \in Req : WF_vars(OutboundReturns(r))

(***************************************************************************)
(* The response parser on its own: one call of extractSuggestions.         *)
(***************************************************************************)
ExtractSuggestions(text, type) ==
  /\ parserIn.type = "none"
  /\ parserIn' = [text |-> text, type |-> type]
  /\ parserOut' = extractSuggestions(text, type)
  /\ UNCHANGED notParser

ParserNext == \E text \in Completions, type \in PromptTypes : ExtractSuggestions(text, type)

ParserSpec == Init /\ [][ParserNext]_vars

(***************************************************************************)
(* The Fallback Catalog on its own: one call of                            *)
(* getEnhancedFallbackRecommendations.                                     *)
(***************************************************************************)
GetEnhancedFallbackRecommendations(p) ==
  /\ catalogIn = NoParams
  /\ catalogIn' = p
  /\ catalogOut' = getEnhancedFallbackRecommendations(p)
  /\ UNCHANGED notCatalog

CatalogNext == \E p \in CatalogParams : GetEnhancedFallbackRecommendations(p)

CatalogSpec == Init /\ [][CatalogNext]_vars

(***************************************************************************)
(* The meal log: the routes of mealsRoute over the table user_meals.       *)
(***************************************************************************)
\* the row db.insert(user_meals).values({...request.body, ..}) stores
MealRow(id, b) ==
  [id |-> id, user_id |-> b.user_id, logged_at |-> b.logged_at, nutrition |-> b.nutrition]

\* the rows GET /user/:user_id/nutrition selects: the user's, of the day
MealsOf(rows, userId, day) == {m \in rows : m.user_id = userId /\ m.logged_at = day}

\* one step of the reduce: total + (nutrition.f || 0) for a meal with nutrition
AddMeal(total, meal) ==
  IF IsUndefined(meal.nutrition) THEN total
  ELSE [calories |-> total.calories + NumOr(meal.nutrition.calories, 0),
        protein |-> total.protein + NumOr(meal.nutrition.protein, 0),
        carbs |-> total.carbs + NumOr(meal.nutrition.carbs, 0),
        fat |-> total.fat + NumOr(meal.nutrition.fat, 0),
        fiber |-> total.fiber + NumOr(meal.nutrition.fiber, 0)]

\* meals.reduce(.., {calories: 0, protein: 0, carbs: 0, fat: 0, fiber: 0})
RECURSIVE totalNutrition(_)
totalNutrition(rows) ==
  IF rows = {} THEN Nutr(0, 0, 0, 0, 0)
  ELSE LET meal == CHOOSE m \in rows : \A o \in rows : m.id <= o.id
       IN AddMeal(totalNutrition(rows \ {meal}), meal)

\* the answer of GET /user/:user_id/nutrition
NutritionSummary(rows, userId, day) ==
  [status |-> 200, success |-> TRUE, user_id |-> userId, date |-> day,
   total_nutrition |-> totalNutrition(MealsOf(rows, userId, day)),
   meal_count |-> Cardinality(MealsOf(rows, userId, day))]

\* POST /meals
LogMeal(b) ==
  /\ nextId <= MaxMeals
  /\ meals' = meals \cup {MealRow(nextId, b)}
  /\ nextId' = nextId + 1
  /\ UNCHANGED <<summary, notMeals>>

\* PUT /meals/:id : set({...request.body}) where id matches; 404 when none does
UpdateMeal(id, b) ==
  /\ meals' = {IF m.id = id THEN [m EXCEPT !.nutrition = b.nutrition] ELSE m : m \in meals}
  /\ UNCHANGED <<nextId, summary, notMeals>>

\* DELETE /meals/:id ; 404 when no row has the id
DeleteMeal(id) ==
  /\ meals' = {m \in meals : m.id # id}
  /\ UNCHANGED <<nextId, summary, notMeals>>

\* GET /meals/user/:user_id/nutrition?date=day
GetNutrition(userId, day) ==
  /\ summary' = NutritionSummary(meals, userId, day)
  /\ UNCHANGED <<meals, nextId, notMeals>>

MealsNext ==
  \/ \E b \in LogBodies : LogMeal(b)
  \/ \E id \in 1..MaxMeals, b \in UpdateBodies : UpdateMeal(id, b)
  \/ \E id \in 1..MaxMeals : DeleteMeal(id)
  \/ \E u \in Users, d \in Days : GetNutrition(u, d)

MealsSpec == Init /\ [][MealsNext]_vars

(***************************************************************************)
(* NutritionChatScreen: sendMessage, sendQuickQuestion and the controls    *)
(* the render enables.                                                     *)
(***************************************************************************)
\* texts typed into the input field
InputTexts == { <<>>, <<" ">>, <<"meer", " ", "eiwit">> }
\* the quick questions of the screen
quickQuestions == { <<"Wat", " ", "eet", " ", "ik">>, <<"Gezonde", " ", "snack">> }
\* what chatNutritionAdvice resolves with (it catches every error itself):
\* the advice of the backend, or its apology
AdviceOutcomes == { <<"advies">>, <<"Sorry">> }

\* finally { setIsLoading(false) }
finallyLoading(loading) == FALSE

\* onChangeText={setInputMessage}, editable={!isLoading}
ChangeText(text) ==
  /\ ~isLoading
  /\ inputMessage' = text
  /\ UNCHANGED <<messages, isLoading, inFlight, asked, notChat>>

\* sendMessage, up to its await; the button is disabled while
\* !inputMessage.trim() || isLoading
SendMessage ==
  /\ asked < MaxQuestions
  /\ ~isLoading
  /\ Trim(inputMessage) # <<>>
  /\ messages' = Append(messages, ChatMessage("user", asked + 1, Trim(inputMessage)))
  /\ inputMessage' = <<>>
  /\ isLoading' = TRUE
  /\ inFlight' = inFlight \cup {asked + 1}
  /\ asked' = asked + 1
  /\ UNCHANGED notChat

\* sendQuickQuestion(question), up to its await; the quick questions are
\* rendered while messages.length <= 2
SendQuickQuestion(question) ==
  /\ asked < MaxQuestions
  /\ Len(messages) <= 2
  /\ messages' = Append(messages, ChatMessage("user", asked + 1, question))
  /\ isLoading' = TRUE
  /\ inFlight' = inFlight \cup {asked + 1}
  /\ asked' = asked + 1
  /\ UNCHANGED <<inputMessage, notChat>>

\* chatNutritionAdvice resolves for question q: the rest of sendMessage or
\* sendQuickQuestion runs, setMessages(prev => [...prev, response]) and finally
AdviceReturns(q, content) ==
  /\ q \in inFlight
  /\ messages' = Append(messages, ChatMessage("assistant", q, content))
  /\ isLoading' = finallyLoading(isLoading)
  /\ inFlight' = inFlight \ {q}
  /\ UNCHANGED <<inputMessage, asked, notChat>>

ChatNext ==
  \/ \E text \in InputTexts : ChangeText(text)
  \/ SendMessage
  \/ \E question \in quickQuestions : SendQuickQuestion(question)
  \/ \E q \in 1..MaxQuestions, content \in AdviceOutcomes : AdviceReturns(q, content)

ChatSpec == Init /\ [][ChatNext]_vars

(***************************************************************************)
(* shoppingRoute over the tables shopping_lists and shopping_items.  The   *)
(* column shopping_items.list_id references shopping_lists.id: an insert   *)
(* of an item for a list that does not exist, and a delete of a list that  *)
(* still has items, fail.                                                  *)
(***************************************************************************)
\* the rows of shopping_items that reference list id
ItemsOf(rows, id) == {i \in rows : i.list_id = id}

\* the foreign key of shopping_items.list_id lets the statement through
ForeignKeyHolds(listIds, rows) == \A i \in rows : i.list_id \in listIds

\* POST /shopping : insert(shopping_lists)
CreateShoppingList ==
  /\ nextListId <= MaxLists
  /\ dbLists' = dbLists \cup {nextListId}
  /\ nextListId' = nextListId + 1
  /\ UNCHANGED <<dbItems, nextItemId, del, notShop>>

\* POST /shopping/items : insert(shopping_items); 500 when the list is missing
\* (the serial id is consumed by the failed insert too)
AddShoppingItem(listId) ==
  /\ nextItemId <= MaxItems
  /\ nextItemId' = nextItemId + 1
  /\ dbItems' = IF ForeignKeyHolds(dbLists, {[id |-> nextItemId, list_id |-> listId]})
                THEN dbItems \cup {[id |-> nextItemId, list_id |-> listId]}
                ELSE dbItems
  /\ UNCHANGED <<dbLists, nextListId, del, notShop>>

\* DELETE /shopping/:id, first statement: delete the items of the list
DeleteListItems(id) ==
  /\ del.pc \in {"idle", "replied"}
  /\ dbItems' = dbItems \ ItemsOf(dbItems, id)
  /\ del' = [pc |-> "items_deleted", id |-> id, status |-> 0, removed |-> ItemsOf(dbItems, id)]
  /\ UNCHANGED <<dbLists, nextListId, nextItemId, notShop>>

\* DELETE /shopping/:id, second statement and the reply: delete the list;
\* 500 when the statement fails, 404 when it deleted no row
DeleteListRow ==
  /\ del.pc = "items_deleted"
  /\ IF ~ForeignKeyHolds(dbLists \ {del.id}, dbItems)
     THEN /\ del' = [del EXCEPT !.pc = "replied", !.status = 500]
          /\ UNCHANGED dbLists
     ELSE IF del.id \notin dbLists
     THEN /\ del' = [del EXCEPT !.pc = "replied", !.status = 404]
          /\ UNCHANGED dbLists
     ELSE /\ del' = [del EXCEPT !.pc = "replied", !.status = 200]
          /\ dbLists' = dbLists \ {del.id}
  /\ UNCHANGED <<dbItems, nextListId, nextItemId, notShop>>

ShoppingRouteNext ==
  \/ CreateShoppingList
  \/ \E listId \in 1..MaxLists : AddShoppingItem(listId)
  \/ \E id \in 1..MaxLists : DeleteListItems(id)
  \/ DeleteListRow

ShoppingRouteSpec == Init /\ [][ShoppingRouteNext]_vars

(***************************************************************************)
(* cleaningRoute: POST / and PATCH /:id/complete over cleaning_tasks.      *)
(* A time is a number of hours since 1 January 00:00 of one (non-leap)     *)
(* year; the clock is read as [month, day, hour].                          *)
(***************************************************************************)
\* last_completed IS NULL
NullTime == -1
\* days of the year before the first of month m (m = 13: the next January)
DaysBefore(m) == <<0, 31, 59, 90, 120, 151, 181, 212, 243, 273, 304, 334, 365>>[m]
\* new Date(year, month, day, hour): day counts on past the end of the month
DateOf(month, day, hour) == 24 * (DaysBefore(month) + day - 1) + hour
\* now.getTime()
TimeOf(now) == DateOf(now.month, now.day, now.hour)

\* what new Date() gives the handler
Nows ==
  { [month |-> 1, day |-> 31, hour |-> 12], [month |-> 2, day |-> 28, hour |-> 0],
    [month |-> 6, day |-> 15, hour |-> 9], [month |-> 12, day |-> 31, hour |-> 23] }
Frequencies == {"daily", "weekly", "bi-weekly", "monthly", "seasonal"}
\* next_due of the bodies of POST /cleaning
DueDates == {DateOf(1, 1, 0), DateOf(7, 1, 0)}
\* the :id of a request
IdParams == { <<"1">>, <<"2">>, <<"abc">>, <<"1", "abc">> }

\* the switch with the monthly case reading now.getMonth() for the month
nextDueOf_SameMonth(frequency, now) ==
  CASE frequency = "daily" -> TimeOf(now) + 24
    [] frequency = "weekly" -> TimeOf(now) + 7 * 24
    [] frequency = "bi-weekly" -> TimeOf(now) + 14 * 24
    [] frequency = "monthly" -> DateOf(now.month, now.day, 0)
    [] frequency = "seasonal" -> TimeOf(now) + 90 * 24
    [] OTHER -> NullTime

\* switch (frequency): nextDue, left null for any other frequency
nextDueOf(frequency, now) ==
  CASE frequency = "daily" -> TimeOf(now) + 24
    [] frequency = "weekly" -> TimeOf(now) + 7 * 24
    [] frequency = "bi-weekly" -> TimeOf(now) + 14 * 24
    [] frequency = "monthly" -> DateOf(now.month + 1, now.day, 0)
    [] frequency = "seasonal" -> TimeOf(now) + 90 * 24
    [] OTHER -> NullTime

\* the row POST /cleaning inserts
TaskRow(id, frequency, due) ==
  [id |-> id, frequency |-> frequency, completed |-> FALSE,
   last_completed |-> NullTime, next_due |-> due]

\* POST /cleaning
CreateTask(frequency, due) ==
  /\ nextTaskId <= MaxTasks
  /\ tasks' = tasks \cup {TaskRow(nextTaskId, frequency, due)}
  /\ nextTaskId' = nextTaskId + 1
  /\ UNCHANGED <<clock, patched, notTasks>>

\* `nextDue || (task.length > 0 ? ..)` is reached with nextDue null: `task` is
\* declared inside the if block and is not in scope there, a ReferenceError
completeThrows(completed, found, nextDue) ==
  \/ ~completed
  \/ found /\ nextDue = NullTime

\* PATCH /cleaning/:id/complete with body {completed}, the clock reading now
PatchComplete(idParam, completed, now) ==
  LET id == parseInt(idParam)
      task == {t \in tasks : t.id = id.value}
      nextDue == IF completed /\ task # {}
                 THEN nextDueOf((CHOOSE t \in task : TRUE).frequency, now)
                 ELSE NullTime
  IN /\ TimeOf(now) >= clock
     /\ clock' = TimeOf(now)
     /\ IF isNaN(id)
        THEN patched' = [status |-> 400] /\ UNCHANGED tasks
        ELSE IF completed /\ task = {}
        THEN patched' = [status |-> 404] /\ UNCHANGED tasks
        ELSE IF completeThrows(completed, task # {}, nextDue)
        THEN patched' = [status |-> 500] /\ UNCHANGED tasks
        ELSE /\ tasks' = {IF t.id = id.value
                           THEN [t EXCEPT !.completed = completed,
                                          !.last_completed =
                                             IF completed THEN TimeOf(now) ELSE NullTime,
                                          !.next_due = nextDue]
                           ELSE t : t \in tasks}
             /\ patched' = [status |-> 200, id |-> id.value, now |-> TimeOf(now)]
     /\ UNCHANGED <<nextTaskId, notTasks>>

CleaningNext ==
  \/ \E f \in Frequencies, due \in DueDates : CreateTask(f, due)
  \/ \E idParam \in IdParams, completed \in BOOLEAN, now \in Nows :
       PatchComplete(idParam, completed, now)

CleaningSpec == Init /\ [][CleaningNext]_vars

(***************************************************************************)
(* useShoppingStore: the shopping lists kept on the device.                *)
(***************************************************************************)
\* the readings of Date.now(); two calls may read the same value
Times == 0..MaxTime
\* the values Math.random() returns
Randoms == {1, 2}
\* Date.now().toString()
IdOf(t) == <<t>>
\* `${Date.now()}-${Math.random()}`
RecipeItemId(t, r) == <<t, r>>
\* a listId or itemId argument that no list and no item has
UnknownId == IdOf(Absent)
\* an item not taken from a recipe has no fromRecipe
NoRecipe == "<undefined>"
\* the itemData handed to addItem
ItemDatas ==
  { [name |-> "melk", category |-> "Zuivel & Eieren", quantity |-> "1x", isChecked |-> FALSE],
    [name |-> "brood", category |-> "Brood & Banket", quantity |-> "1x", isChecked |-> TRUE] }
\* the updates handed to updateItem
Updates == { [isChecked |-> TRUE], [name |-> "kaas"] }
\* the ingredient names handed to addItemsFromRecipe
IngredientNames == { <<"ui">>, <<"ui", "wortel">> }

\* the store's state as the callbacks of set() see it
StoreState == [lists |-> lists, currentListId |-> currentListId]
\* the ids the caller can name: those on display and one that is not
ListIdArgs == {lists[i].id : i \in 1..Len(lists)} \cup {UnknownId}
ItemIdArgs ==
  UNION {{lists[i].items[k].id : k \in 1..Len(lists[i].items)} : i \in 1..Len(lists)}
    \cup {UnknownId}

\* state.lists.map(list => list.id === listId ? f(list) : list)
MapMatching(ls, listId, f(_)) ==
  [i \in 1..Len(ls) |-> IF ls[i].id = listId THEN f(ls[i]) ELSE ls[i]]
\* list.items.map(item => item.id === itemId ? f(item) : item)
MapItems(items, itemId, f(_)) ==
  [k \in 1..Len(items) |-> IF items[k].id = itemId THEN f(items[k]) ELSE items[k]]

createList(state, name, t) ==
  LET newList == [id |-> IdOf(t), name |-> name, items |-> <<>>, updatedAt |-> t]
  IN [lists |-> Append(state.lists, newList), currentListId |-> newList.id]

\* deleteList that leaves currentListId alone
deleteList_KeepCurrent(state, listId) ==
  [lists |-> SelectSeq(state.lists, LAMBDA list : list.id # listId),
   currentListId |-> state.currentListId]

deleteList(state, listId) ==
  LET filteredLists == SelectSeq(state.lists, LAMBDA list : list.id # listId)
  IN [lists |-> filteredLists,
      currentListId |->
        IF state.currentListId = listId
        THEN (IF Len(filteredLists) > 0 THEN filteredLists[1].id ELSE NullId)
        ELSE state.currentListId]

\* addItem that appends the item to every list
addItem_EveryList(state, listId, itemData, t) ==
  LET newItem == [id |-> IdOf(t), name |-> itemData.name,
                  category |-> itemData.category, quantity |-> itemData.quantity,
                  isChecked |-> itemData.isChecked, fromRecipe |-> NoRecipe,
                  updatedAt |-> t]
  IN [state EXCEPT !.lists =
        [i \in 1..Len(state.lists) |->
           [state.lists[i] EXCEPT !.items = Append(@, newItem), !.updatedAt = t]]]

addItem(state, listId, itemData, t) ==
  LET newItem == [id |-> IdOf(t), name |-> itemData.name,
                  category |-> itemData.category, quantity |-> itemData.quantity,
                  isChecked |-> itemData.isChecked, fromRecipe |-> NoRecipe,
                  updatedAt |-> t]
  IN [state EXCEPT !.lists =
        MapMatching(state.lists, listId,
          LAMBDA list : [list EXCEPT !.items = Append(@, newItem), !.updatedAt = t])]

\* { ...item, ...updates, updatedAt: new Date() }
ApplyUpdates(item, updates, t) ==
  [item EXCEPT
     !.name = IF "name" \in DOMAIN updates THEN updates.name ELSE @,
     !.isChecked = IF "isChecked" \in DOMAIN updates THEN updates.isChecked ELSE @,
     !.updatedAt = t]

updateItem(state, listId, itemId, updates, t) ==
  [state EXCEPT !.lists =
     MapMatching(state.lists, listId,
       LAMBDA list :
         [list EXCEPT
            !.items = MapItems(@, itemId, LAMBDA item : ApplyUpdates(item, updates, t)),
            !.updatedAt = t])]

deleteItem(state, listId, itemId, t) ==
  [state EXCEPT !.lists =
     MapMatching(state.lists, listId,
       LAMBDA list :
         [list EXCEPT
            !.items = SelectSeq(@, LAMBDA item : item.id # itemId),
            !.updatedAt = t])]

toggleItem(state, listId, itemId, t) ==
  [state EXCEPT !.lists =
     MapMatching(state.lists, listId,
       LAMBDA list :
         [list EXCEPT
            !.items = MapItems(@, itemId,
                        LAMBDA item : [item EXCEPT !.isChecked = ~@, !.updatedAt = t]),
            !.updatedAt = t])]

\* clearCheckedItems that removes the items not checked
clearCheckedItems_KeepChecked(state, listId, t) ==
  [state EXCEPT !.lists =
     MapMatching(state.lists, listId,
       LAMBDA list :
         [list EXCEPT
            !.items = SelectSeq(@, LAMBDA item : item.isChecked),
            !.updatedAt = t])]

clearCheckedItems(state, listId, t) ==
  [state EXCEPT !.lists =
     MapMatching(state.lists, listId,
       LAMBDA list :
         [list EXCEPT
            !.items = SelectSeq(@, LAMBDA item : ~item.isChecked),
            !.updatedAt = t])]

\* rs[i] is what Math.random() returned for the i-th ingredient
addItemsFromRecipe(state, listId, recipeName, ingredients, rs, t) ==
  LET newItems ==
        [i \in 1..Len(ingredients) |->
           [id |-> RecipeItemId(t, rs[i]), name |-> ingredients[i],
            category |-> "Overig", quantity |-> "1x", isChecked |-> FALSE,
            fromRecipe |-> recipeName, updatedAt |-> t]]
  IN [state EXCEPT !.lists =
        MapMatching(state.lists, listId,
          LAMBDA list : [list EXCEPT !.items = @ \o newItems, !.updatedAt = t])]

\* lists.find(list => list.id === currentListId) finds a list
HasCurrentList(state) ==
  \E i \in 1..Len(state.lists) : state.lists[i].id = state.currentListId
\* and the list it finds: the first one with the id
useCurrentShoppingList(state) ==
  LET found == {i \in 1..Len(state.lists) : state.lists[i].id = state.currentListId}
  IN state.lists[CHOOSE i \in found : \A j \in found : i <= j]

useShoppingStats(state) ==
  IF ~HasCurrentList(state)
  THEN [total |-> 0, checked |-> 0, remaining |-> 0]
  ELSE LET currentList == useCurrentShoppingList(state)
           total == Len(currentList.items)
           checked == Len(SelectSeq(currentList.items, LAMBDA item : item.isChecked))
       IN [total |-> total, checked |-> checked, remaining |-> total - checked]

\* a call of the store that reads the time t: set() stores the new state and
\* the screen renders again
StoreCall(op, listId, t, newState) ==
  /\ t >= dateNow
  /\ dateNow' = t
  /\ lists' = newState.lists
  /\ currentListId' = newState.currentListId
  /\ stats' = useShoppingStats(newState)
  /\ storeOp' = [op |-> op, listId |-> listId, current |-> currentListId]
  /\ UNCHANGED notStore

\* the number of items of the first n lists
RECURSIVE ItemCount(_, _)
ItemCount(ls, n) == IF n = 0 THEN 0 ELSE ItemCount(ls, n - 1) + Len(ls[n].items)
\* the store the call leaves has no more than MaxStoreItems items
HasRoom(newState) == ItemCount(newState.lists, Len(newState.lists)) <= MaxStoreItems

CreateList(t) ==
  /\ Len(lists) < MaxStoreLists
  /\ StoreCall("createList", IdOf(t), t, createList(StoreState, "Weekboodschappen", t))

DeleteList(listId) ==
  StoreCall("deleteList", listId, dateNow, deleteList(StoreState, listId))

AddItem(listId, itemData, t) ==
  /\ HasRoom(addItem(StoreState, listId, itemData, t))
  /\ StoreCall("addItem", listId, t, addItem(StoreState, listId, itemData, t))

UpdateItem(listId, itemId, updates, t) ==
  StoreCall("updateItem", listId, t,
            updateItem(StoreState, listId, itemId, updates, t))

DeleteItem(listId, itemId, t) ==
  StoreCall("deleteItem", listId, t, deleteItem(StoreState, listId, itemId, t))

ToggleItem(listId, itemId, t) ==
  StoreCall("toggleItem", listId, t, toggleItem(StoreState, listId, itemId, t))

ClearCheckedItems(listId, t) ==
  StoreCall("clearCheckedItems", listId, t, clearCheckedItems(StoreState, listId, t))

AddItemsFromRecipe(listId, ingredients, rs, t) ==
  /\ HasRoom(addItemsFromRecipe(StoreState, listId, "Soep", ingredients, rs, t))
  /\ StoreCall("addItemsFromRecipe", listId, t,
               addItemsFromRecipe(StoreState, listId, "Soep", ingredients, rs, t))

StoreNext ==
  \/ \E t \in Times : CreateList(t)
  \/ \E listId \in ListIdArgs : DeleteList(listId)
  \/ \E listId \in ListIdArgs, itemData \in ItemDatas, t \in Times :
       AddItem(listId, itemData, t)
  \/ \E listId \in ListIdArgs, itemId \in ItemIdArgs, updates \in Updates, t \in Times :
       UpdateItem(listId, itemId, updates, t)
  \/ \E listId \in ListIdArgs, itemId \in ItemIdArgs, t \in Times :
       DeleteItem(listId, itemId, t)
  \/ \E listId \in ListIdArgs, itemId \in ItemIdArgs, t \in Times :
       ToggleItem(listId, itemId, t)
  \/ \E listId \in ListIdArgs, t \in Times : ClearCheckedItems(listId, t)
  \/ \E listId \in ListIdArgs, ingredients \in IngredientNames, t \in Times :
       \E rs \in [1..Len(ingredients) -> Randoms] :
         AddItemsFromRecipe(listId, ingredients, rs, t)

StoreSpec == Init /\ [][StoreNext]_vars

(***************************************************************************)
(* The update and delete routes that name a row by the id of the path:     *)
(* PUT and DELETE /recipes/:id, /meals/:id, /budget/expenses/:id and       *)
(* /cleaning/:id, PATCH and DELETE /shopping/items/:itemId. The ten        *)
(* handlers have one shape.                                                *)
(***************************************************************************)
\* what a row holds besides its id
RowValues == {"a", "b"}
\* the number of rows inserted so far
RECURSIVE Inserted(_, _)
Inserted(next, rs) ==
  IF rs = {} THEN 0
  ELSE LET res == CHOOSE r \in rs : TRUE
       IN (next[res] - 1) + Inserted(next, rs \ {res})

\* POST of the resource: insert(table).values(..).returning()
CreateRow(res, value) ==
  /\ Inserted(serial, Resources) < MaxRows
  /\ stored' = [stored EXCEPT ![res] = @ \cup {[id |-> serial[res], value |-> value]}]
  /\ serial' = [serial EXCEPT ![res] = @ + 1]
  /\ UNCHANGED <<answer, notById>>

\* update(table).set(..).where(eq(table.id, id)).returning(): the table after
updateWhere(rows, id, value) ==
  {IF r.id = id THEN [r EXCEPT !.value = value] ELSE r : r \in rows}
\* delete(table).where(eq(table.id, id)).returning(): the table after
deleteWhere(rows, id) == {r \in rows : r.id # id}
\* the rows the statement returns
returning(rows, id) == {r \in rows : r.id = id}

\* the reply of the handler for the rows its statement returned
statusOf(id, returned) ==
  IF isNaN(id) THEN 400 ELSE IF returned = {} THEN 404 ELSE 200

\* PUT /:id (PATCH /items/:itemId)
UpdateById(res, idParam, value) ==
  LET id == parseInt(idParam)
      returned == IF isNaN(id) THEN {} ELSE returning(stored[res], id.value)
  IN /\ stored' = [stored EXCEPT ![res] =
                     IF isNaN(id) THEN @ ELSE updateWhere(@, id.value, value)]
     /\ answer' = [status |-> statusOf(id, returned), op |-> "update", res |-> res,
                   idParam |-> idParam]
     /\ UNCHANGED <<serial, notById>>

\* DELETE /:id (DELETE /items/:itemId)
DeleteById(res, idParam) ==
  LET id == parseInt(idParam)
      returned == IF isNaN(id) THEN {} ELSE returning(stored[res], id.value)
  IN /\ stored' = [stored EXCEPT ![res] =
                     IF isNaN(id) THEN @ ELSE deleteWhere(@, id.value)]
     /\ answer' = [status |-> statusOf(id, returned), op |-> "delete", res |-> res,
                   idParam |-> idParam]
     /\ UNCHANGED <<serial, notById>>

ByIdNext ==
  \/ \E res \in Resources, value \in RowValues : CreateRow(res, value)
  \/ \E res \in Resources, idParam \in IdParams, value \in RowValues :
       UpdateById(res, idParam, value)
  \/ \E res \in Resources, idParam \in IdParams : DeleteById(res, idParam)

ByIdSpec == Init /\ [][ByIdNext]_vars

(***************************************************************************)
(* Properties.                                                             *)
(***************************************************************************)
Unhealthy(r) == probe[r] \in {"not_ok", "network_error"}
\* the handler has answered request r
Answered(r) == replies[r] > 0
\* getMealRecommendations has ended for request r
Returned(r) == origin[r] = "client" /\ pc[r] = "returned"
\* the records of the client's Fallback Catalog
CatalogIds ==
  { <<"fallback-protein-1">>, <<"fallback-fiber-1">>, <<"fallback-energy-1">>,
    <<"fallback-breakfast-1">>, <<"fallback-lunch-1">>, <<"fallback-dinner-1">> }
Elems(seq) == {seq[i] : i \in 1..Len(seq)}

\* C1: a request whose health probe reported unhealthy is answered 503 with the
\* backend's fallbacks, and getMealRecommendations then returns (it does not
\* throw) the records the Fallback Catalog selects for its parameters: at least
\* one record, each one a catalog record.
C1_UnhealthyYieldsCatalog ==
  \A r \in Req :
    Unhealthy(r) =>
      /\ Answered(r) /\ reply[r] = UnavailableReply(body[r].type)
      /\ Returned(r) =>
           /\ result[r].outcome = "returned"
           /\ result[r].recs = getEnhancedFallbackRecommendations(params[r])
           /\ Len(result[r].recs) >= 1
           /\ \A rec \in Elems(result[r].recs) : rec.id \in CatalogIds

\* C1 witness: a client call has returned after an unhealthy probe
C1_Witness ==
  \E r \in Req : Returned(r) /\ probe[r] = "network_error" /\ Len(result[r].recs) = 3

\* C2 as claimed: every run that got as far as the health probe returns at
\* least one recommendation, on the parse path and on both fallback paths.
C2_NonEmptyOnEveryPath ==
  \A r \in Req :
    (Returned(r) /\ probe[r] # "none") =>
      result[r].outcome = "returned" /\ Len(result[r].recs) >= 1

\* the generate call of request r delivered a completion / failed
GenerateCallSucceeded(r) ==
  gen[r] = "ok" /\ data[r].kind = "json" /\ data[r].response # Null
GenerateCallFailed(r) ==
  \/ gen[r] \in {"not_ok", "network_error"}
  \/ gen[r] = "ok" /\ data[r].kind = "unreadable"
  \/ gen[r] = "ok" /\ data[r].kind = "json" /\ data[r].response = Null

\* the transitions of the pipeline's state machine
SpecTransitions ==
  { <<"BUILD_PROMPT", "HEALTH_CHECK">>, <<"HEALTH_CHECK", "CALL_LLM">>,
    <<"CALL_LLM", "PARSE">>, <<"PARSE", "DONE">>, <<"CALL_LLM", "FALLBACK">>,
    <<"HEALTH_CHECK", "FALLBACK">>, <<"FALLBACK", "DONE">> }

\* C3 as claimed: a request passes only through the transitions of the state
\* machine; the generate call is issued only after a healthy probe, PARSE
\* happens only after a generate call with a success status, and FALLBACK only
\* after an unhealthy probe or a failed generate call.
C3_OnlySpecTransitions ==
  \A r \in Req :
    /\ \A i \in 1..(Len(trace[r]) - 1) : <<trace[r][i], trace[r][i + 1]>> \in SpecTransitions
    /\ calls[r].generate > 0 => probe[r] = "ok"
    /\ "PARSE" \in Elems(trace[r]) => gen[r] = "ok"
    /\ "FALLBACK" \in Elems(trace[r]) => Unhealthy(r) \/ GenerateCallFailed(r)

\* C4: once the handler has started, the request is eventually answered, by
\* exactly one reply, whatever the probe, the generate call and the parse give;
\* no request is ever left without a reply by a handler that has ended.
C4_EveryRequestAnswered ==
  /\ \A r \in Req : (pc[r] = "probing") ~> (replies[r] = 1 /\ pc[r] \in {"replied", "returned"})
  /\ [](\A r \in Req : replies[r] <= 1 /\ pc[r] # "hung")

\* C4 witness: a request answered after its generate call got no answer
C4_Witness ==
  \E r \in Req : replies[r] = 1 /\ gen[r] = "network_error" /\ pc[r] = "replied"

\* C5: a request issues at most one health probe and at most one generate call,
\* the generate call only once the probe has ended; a failed generate call is
\* not followed by another.
C5_AtMostTwoOutboundCalls ==
  \A r \in Req :
    /\ calls[r].probe <= 1
    /\ calls[r].generate <= 1
    /\ calls[r].generate > 0 => calls[r].probe = 1 /\ probe[r] # "none"

\* C5 witness: a request answered after a failed generate call
C5_Witness ==
  \E r \in Req :
    pc[r] = "replied" /\ gen[r] = "not_ok" /\ calls[r] = [probe |-> 1, generate |-> 1]

\* the reply of the handler as a function of the request's own body and of how
\* its own probe, generate call and body read ended
ReplyFor(b, h, g, d) ==
  IF h = "ok" /\ ~buildUserPromptThrows(b) /\ g = "ok" /\ d.kind = "json" /\ d.response # Null
  THEN SuccessReply(parseOllamaResponse(d.response, b.type))
  ELSE UnavailableReply(b.type)

\* everything the model keeps for request r
Slot(r) ==
  <<pc[r], origin[r], params[r], body[r], prompt[r], llmPrompt[r], probe[r], gen[r],
    data[r], calls[r], reply[r], replies[r], result[r], trace[r], healthy[r], genResult[r]>>

\* C6: with two requests interleaved in any way, the reply to each is the
\* function ReplyFor of its own body and of the results of its own probe and
\* generate call, and a step taken for one request changes nothing kept for
\* the other.
C6_RequestsIsolated ==
  /\ [](\A r \in Req : Answered(r) => reply[r] = ReplyFor(body[r], probe[r], gen[r], data[r]))
  /\ [][\A r \in Req : Slot(r)' # Slot(r) => \A o \in Req \ {r} : Slot(o)' = Slot(o)]_vars

\* C6 witness: one request answered 200 while the other, of another type, is
\* between its generate call and its reply
C6_Witness ==
  /\ reply["r1"].status = 200 /\ pc["r2"] = "reading"
  /\ body["r1"].type # body["r2"].type

C8_FieldsNonNegative ==
  \A r \in Req :
    \A rec \in Elems(result[r].recs) :
      /\ rec.name # Null
      /\ rec.prepTime >= 0 /\ rec.difficulty >= 0 /\ rec.calories >= 0
      /\ rec.protein >= 0 /\ rec.carbs >= 0 /\ rec.fat >= 0

\* the clauses that print deficits
DeficitLabels ==
  {"Remaining today", "Ik heb nog .. nodig", "Ook zou ik nog .. vezels moeten hebben"}
DeficitsFloored(text) ==
  \A c \in Elems(text) : c.clause \in DeficitLabels => \A n \in Elems(c.nums) : n >= 0

\* C9 as claimed: no deficit printed into an instruction is negative, in the
\* prompt the backend sends to the LLM and in the instruction the client builds.
C9_RenderedDeficitsFloored ==
  \A r \in Req :
    /\ DeficitsFloored(llmPrompt[r])
    /\ "user_input" \in DOMAIN body[r] => DeficitsFloored(body[r].user_input)

\* a list-marker line: one beginning with digits and a period, a hyphen or an asterisk
BeginsWithMarker(line) ==
  /\ Len(line) >= 1
  /\ \/ line[1] \in {"-", "*"}
     \/ \E k \in 1..(Len(line) - 1) : line[k + 1] = "." /\ \A j \in 1..k : line[j] \in Digits

\* C10: for a completion none of whose lines is a list-marker line, the parser
\* returns one record, whose advice is the whole completion, for every category.
C10_NoMarkerOneRecord ==
  (parserIn.type \in PromptTypes
     /\ \A line \in Elems(SplitOn(parserIn.text, "\n")) : ~BeginsWithMarker(line))
  => parserOut = <<[advice |-> parserIn.text]>>

\* C10 witness: a two-line completion without list markers, parsed for cleaning
C10_Witness ==
  /\ parserIn.type = "cleaning_schedule"
  /\ parserIn.text = <<"1", " ", "egg", "\n", " ", "-", " ", "make", " ", "salad">>
  /\ Len(parserOut) = 1

\* how far the intake of parameters p is below the goal for field f; a goal
\* that is missing counts as dflt, an intake that is missing as zero
Shortfall(p, f, dflt) ==
  (IF p.targets[f] \in {Absent, 0} THEN dflt ELSE p.targets[f])
  - (IF p.currentNutrition[f] = Absent THEN 0 ELSE p.currentNutrition[f])
ProteinShort(p) == Shortfall(p, "protein", 0)
FiberShort(p) == Shortfall(p, "fiber", 30)
CaloriesShort(p) == Shortfall(p, "calories", 0)

\* the Fallback Catalog has been called
CatalogCalled == catalogIn # NoParams
\* the ids of the records of a list, in order
Ids(recs) == [i \in 1..Len(recs) |-> recs[i].id]

\* C11: when only the protein threshold is crossed (protein deficit > 20, fiber
\* deficit <= 15, calorie deficit <= 500), the Fallback Catalog returns exactly
\* one record, the high-protein record.
C11_OnlyProteinCrossed ==
  (CatalogCalled
     /\ ProteinShort(catalogIn) > 20
     /\ FiberShort(catalogIn) <= 15
     /\ CaloriesShort(catalogIn) <= 500)
  => Ids(catalogOut) = << <<"fallback-protein-1">> >>

\* C11 witness: the catalog called with deficits of 25 g protein, 5 g fiber
\* and 100 kcal
C11_Witness ==
  /\ CatalogCalled
  /\ catalogIn.currentNutrition = Nutr(2100, 125, 240, 75, 20)
  /\ catalogIn.targets = Goals
  /\ Len(catalogOut) = 1

\* C12 as claimed: when every deficit is below its threshold, the Fallback
\* Catalog returns exactly one record, whose mealType is the requested meal
\* type (breakfast, lunch, dinner or snack), and the lunch record when no meal
\* type is given.
C12_DefaultMatchesMealType ==
  (CatalogCalled
     /\ ProteinShort(catalogIn) < 20
     /\ FiberShort(catalogIn) < 15
     /\ CaloriesShort(catalogIn) < 500)
  => /\ Len(catalogOut) = 1
     /\ catalogOut[1].mealType = (IF catalogIn.mealType = "" THEN "lunch" ELSE catalogIn.mealType)

\* the thresholds of request r's parameters are all uncrossed
NearZero(p) ==
  /\ ProteinShort(p) <= 20
  /\ FiberShort(p) <= 15
  /\ CaloriesShort(p) <= 500

\* C13: a getMealRecommendations call for breakfast with every deficit near
\* zero, whose request got the 503 of a failed health probe, returns one
\* record, of mealType breakfast.
C13_BreakfastEndToEnd ==
  \A r \in Req :
    (Returned(r) /\ Unhealthy(r) /\ params[r].mealType = "breakfast" /\ NearZero(params[r]))
    => /\ result[r].outcome = "returned"
       /\ Len(result[r].recs) = 1
       /\ result[r].recs[1].mealType = "breakfast"

\* C13 witness: such a call has returned the breakfast record after a 503
C13_Witness ==
  \E r \in Req :
    /\ Returned(r) /\ probe[r] = "not_ok" /\ reply[r].status = 503
    /\ params[r] = Params(NearGoals, Goals, "breakfast", "absent")
    /\ result[r].recs = <<BreakfastRecord>>

\* C14: checkHealth returns a boolean to the handler for every way GET /api/tags
\* can end (it never throws): true when the call ended with a success status,
\* false for a network failure and for any other status.
C14_CheckHealthBoolean ==
  \A r \in Req :
    /\ healthy[r].value \in BOOLEAN
    /\ probe[r] # "none" =>
         /\ healthy[r].returned
         /\ healthy[r].value <=> probe[r] = "ok"
    /\ probe[r] = "none" => ~healthy[r].returned

\* C14 witness: checkHealth has returned false after a network failure for one
\* request and true for the other
C14_Witness ==
  /\ probe["r1"] = "network_error" /\ healthy["r1"] = [returned |-> TRUE, value |-> FALSE]
  /\ probe["r2"] = "ok" /\ healthy["r2"] = [returned |-> TRUE, value |-> TRUE]

C16_SuccessStatusNever503 ==
  \A r \in Req :
    (Answered(r) /\ gen[r] = "ok") =>
      /\ reply[r].status = 200
      /\ reply[r].success = TRUE
      /\ "fallback_suggestions" \notin DOMAIN reply[r]

\* C17 as claimed: the Prompt Builder always returns a non-empty instruction:
\* the client's builder gives getMealRecommendations a text to post, and the
\* backend's builder gives every request with a healthy probe a user prompt.
C17_PromptBuilderNeverFails ==
  \A r \in Req :
    /\ origin[r] = "client" => (body[r] # NoBody /\ Len(body[r].user_input) >= 1)
    /\ probe[r] = "ok" => Len(llmPrompt[r]) >= 1

\* what the meal with serial id `id` adds to field f of the day's total of a
\* user: its stored value, zero when it is not the user's, not of the day,
\* deleted, without nutrition or without the field
Contribution(id, userId, day, f) ==
  IF \E m \in meals : m.id = id /\ m.user_id = userId /\ m.logged_at = day
                      /\ ~IsUndefined(m.nutrition) /\ m.nutrition[f] # Absent
  THEN (CHOOSE m \in meals : m.id = id).nutrition[f]
  ELSE 0
RECURSIVE SumTo(_, _, _, _)
SumTo(n, userId, day, f) ==
  IF n = 0 THEN 0 ELSE SumTo(n - 1, userId, day, f) + Contribution(n, userId, day, f)
NutritionFields == {"calories", "protein", "carbs", "fat", "fiber"}

\* C18 as claimed: every answer of the nutrition summary carries, for each of
\* the five fields, the sum over the meals stored for the user and day at the
\* time of the request, and the number of those meals, whatever was logged,
\* updated and deleted before; and no total is ever negative.
C18_SummaryIsSumOfStoredMeals ==
  /\ [][\A u \in Users, d \in Days :
          GetNutrition(u, d) =>
            /\ \A f \in NutritionFields : summary'.total_nutrition[f] = SumTo(MaxMeals, u, d, f)
            /\ summary'.meal_count =
                 Cardinality({m \in meals : m.user_id = u /\ m.logged_at = d})]_vars
  /\ [](summary.status = 200 =>
          \A f \in NutritionFields : summary.total_nutrition[f] >= 0)

\* the ids the three rules select for parameters p, in rule order
RuleIds(p) ==
  (IF ProteinShort(p) > 20 THEN << <<"fallback-protein-1">> >> ELSE <<>>)
  \o (IF FiberShort(p) > 15 THEN << <<"fallback-fiber-1">> >> ELSE <<>>)
  \o (IF CaloriesShort(p) > 500 THEN << <<"fallback-energy-1">> >> ELSE <<>>)
DefaultIds ==
  { <<"fallback-breakfast-1">>, <<"fallback-lunch-1">>, <<"fallback-dinner-1">> }

\* C19: the Fallback Catalog returns the high-protein record iff the protein
\* deficit exceeds 20, the high-fiber record iff the fiber deficit exceeds 15
\* and the energy-dense record, of mealType dinner, iff the calorie deficit
\* exceeds 500, each rule on its own and in this order; it returns one default
\* meal-type record iff no threshold is crossed; so it returns 1 to 3 records.
C19_OrderedRuleList ==
  CatalogCalled =>
    /\ IF RuleIds(catalogIn) = <<>>
       THEN Len(catalogOut) = 1 /\ catalogOut[1].id \in DefaultIds
       ELSE Ids(catalogOut) = RuleIds(catalogIn)
    /\ \A i \in 1..Len(catalogOut) :
         catalogOut[i].id = <<"fallback-energy-1">> => catalogOut[i].mealType = "dinner"
    /\ Len(catalogOut) \in 1..3

\* C19 witness: every threshold crossed, three records returned
C19_Witness ==
  /\ CatalogCalled
  /\ ProteinShort(catalogIn) > 20 /\ FiberShort(catalogIn) > 15
  /\ CaloriesShort(catalogIn) > 500
  /\ Len(catalogOut) = 3

\* the list-marker lines of a completion, in line order
MarkerLinesOf(text) == SelectSeq(SplitOn(text, "\n"), BeginsWithMarker)
\* a dish name is extracted from the line
HasDishName(line) == Truthy(extractRecipeName(line))

\* C20: for shopping_optimization, budget_analysis and cleaning_schedule a
\* completion with n >= 1 list-marker lines gives n records, the i-th made from
\* the i-th list-marker line; for meal_planning the records are those of the
\* list-marker lines a dish name is extracted from, in line order (the one
\* record wrapping the completion when there is none); a line that does not
\* begin with a list marker gives no record.
C20_KeepsExactlyMarkerLines ==
  parserIn.type \in PromptTypes =>
    LET lines == MarkerLinesOf(parserIn.text)
        dishes == SelectSeq(lines, HasDishName)
    IN /\ (parserIn.type # "meal_planning" /\ Len(lines) >= 1) =>
            /\ Len(parserOut) = Len(lines)
            /\ \A i \in 1..Len(lines) : parserOut[i].advice = Trim(lines[i])
       /\ (parserIn.type = "meal_planning" /\ Len(dishes) >= 1) =>
            /\ Len(parserOut) = Len(dishes)
            /\ \A i \in 1..Len(dishes) :
                 /\ parserOut[i].reasoning = Trim(dishes[i])
                 /\ parserOut[i].recipe_name = extractRecipeName(dishes[i])
       /\ (parserIn.type = "meal_planning" /\ Len(dishes) = 0) =>
            parserOut = <<[advice |-> parserIn.text]>>

\* C20 witness: a list-marker line after a line whose hyphen follows a blank,
\* parsed for shopping: one record, of the second line
C20_Witness ==
  /\ parserIn.type = "shopping_optimization"
  /\ parserIn.text = <<" ", "-", " ", "make", " ", "salad", "\n",
                       "1", ".", " ", "buy", " ", "groceries">>
  /\ Len(parserOut) = 1
  /\ parserOut[1].item = <<"buy">>

\* the messages of a type about question q
MessagesAbout(type, q) ==
  {i \in 1..Len(messages) : messages[i].type = type /\ messages[i].question = q}

\* C21 as claimed: isLoading is true exactly while a chat request is in flight,
\* however sendMessage and sendQuickQuestion interleave; and every question
\* sent has one user message, followed by one assistant message once its
\* request has ended and by none before.
C21_LoadingIffInFlight ==
  /\ isLoading <=> inFlight # {}
  /\ \A q \in 1..asked :
       /\ Cardinality(MessagesAbout("user", q)) = 1
       /\ Cardinality(MessagesAbout("assistant", q)) = (IF q \in inFlight THEN 0 ELSE 1)
       /\ \A i \in MessagesAbout("user", q), j \in MessagesAbout("assistant", q) : i < j

\* C22 as claimed: when DELETE /shopping/:id has replied, either it replied
\* success and the list and every item of the list are gone, or it replied an
\* error and it has removed no item of the list, whatever POST /shopping/items
\* did in between.
C22_DeleteListAllOrNothing ==
  del.pc = "replied" =>
    IF del.status = 200
    THEN del.id \notin dbLists /\ ItemsOf(dbItems, del.id) = {}
    ELSE del.removed = {}

\* the task with serial id `id` in a table
TaskIn(rows, id) == CHOOSE t \in rows : t.id = id
HasTask(rows, id) == \E t \in rows : t.id = id

\* C23 as claimed: PATCH /cleaning/:id/complete with completed=false on an
\* existing task replies success, leaves the task not completed with
\* last_completed null, and does not change its next_due.
C23_UncompleteKeepsNextDue ==
  [][\A id \in 1..MaxTasks, now \in Nows :
       (PatchComplete(<<ToString(id)>>, FALSE, now) /\ HasTask(tasks, id)) =>
         /\ patched'.status = 200
         /\ HasTask(tasks', id)
         /\ TaskIn(tasks', id).completed = FALSE
         /\ TaskIn(tasks', id).last_completed = NullTime
         /\ TaskIn(tasks', id).next_due = TaskIn(tasks, id).next_due]_vars

\* the time the claim gives a completed task of a frequency: a fixed number of
\* days after now, and for monthly a midnight in a later month, at most 31
\* days ahead
DueAsClaimed(frequency, now, due) ==
  CASE frequency = "daily" -> due = TimeOf(now) + 24
    [] frequency = "weekly" -> due = TimeOf(now) + 7 * 24
    [] frequency = "bi-weekly" -> due = TimeOf(now) + 14 * 24
    [] frequency = "seasonal" -> due = TimeOf(now) + 90 * 24
    [] frequency = "monthly" ->
         /\ due >= 24 * DaysBefore(now.month + 1)
         /\ due <= TimeOf(now) + 31 * 24
         /\ due % 24 = 0

ListIdsOf(ls) == {ls[i].id : i \in 1..Len(ls)}

C26_IdsDistinct ==
  /\ \A i, j \in 1..Len(lists) : i # j => lists[i].id # lists[j].id
  /\ \A i \in 1..Len(lists) :
       \A a, b \in 1..Len(lists[i].items) :
         a # b => lists[i].items[a].id # lists[i].items[b].id

NotChecked(item) == ~item.isChecked

\* C27: useShoppingStats returns total = checked + remaining, and three zeros
\* when no list has the current id; right after clearCheckedItems of the
\* current list it returns checked = 0; and clearCheckedItems(listId) leaves
\* in a list with that id the items that were not checked, in the order they
\* had, and none that is checked.
C27_ClearLeavesUnchecked ==
  /\ [](/\ stats.total = stats.checked + stats.remaining
        /\ currentListId \notin ListIdsOf(lists) =>
             stats.total = 0 /\ stats.checked = 0 /\ stats.remaining = 0
        /\ (storeOp.op = "clearCheckedItems" /\ storeOp.listId = currentListId) =>
             stats.checked = 0)
  /\ [][\A listId \in ListIdArgs, t \in Times :
          ClearCheckedItems(listId, t) =>
            \A i \in 1..Len(lists) :
              lists[i].id = listId =>
                /\ \A k \in 1..Len(lists'[i].items) : ~lists'[i].items[k].isChecked
                /\ lists'[i].items = SelectSeq(lists[i].items, NotChecked)]_vars

\* C27 witness: clearCheckedItems of the current list left an item, and the
\* screen shows no checked item
C27_Witness ==
  /\ storeOp.op = "clearCheckedItems"
  /\ storeOp.listId = currentListId
  /\ stats.total = 1 /\ stats.checked = 0 /\ stats.remaining = 1
  /\ \E i \in 1..Len(lists) : lists[i].id = currentListId /\ lists[i].updatedAt = dateNow

\* the calls of the store that work on the items of one list
ItemOps ==
  {"addItem", "updateItem", "deleteItem", "toggleItem", "clearCheckedItems",
   "addItemsFromRecipe"}

\* C28: a call of addItem, updateItem, deleteItem, toggleItem,
\* clearCheckedItems or addItemsFromRecipe with a listId keeps the number, the
\* order and the ids of the lists and currentListId, changes no list with
\* another id, and changes nothing at all when no list has the id.
C28_OtherListsUntouched ==
  [][storeOp'.op \in ItemOps =>
       LET listId == storeOp'.listId
       IN /\ Len(lists') = Len(lists)
          /\ currentListId' = currentListId
          /\ \A i \in 1..Len(lists) :
               /\ lists'[i].id = lists[i].id
               /\ lists[i].id # listId => lists'[i] = lists[i]
          /\ listId \notin ListIdsOf(lists) => lists' = lists]_vars

\* C28 witness: of two lists with different ids the second was given an item
\* and the first has none
C28_Witness ==
  /\ storeOp.op = "addItem"
  /\ Len(lists) = 2
  /\ lists[1].id # lists[2].id
  /\ storeOp.listId = lists[2].id
  /\ Len(lists[1].items) = 0
  /\ Len(lists[2].items) = 1

\* the path parameter is a number: digits and nothing else
IsNumeric(idParam) ==
  idParam # <<>> /\ \A i \in 1..Len(idParam) : idParam[i] \in Digits

\* C29 as claimed: a by-id update or delete route replies 400 when the id of
\* the path is not a number and 404 when it is a number no row has, and in
\* both cases no stored row is created, changed or removed; a delete that
\* replies success removes the row with that id and no other row.
C29_ByIdRoutesValidateId ==
  [][\A res \in Resources, idParam \in IdParams :
       ((\E value \in RowValues : UpdateById(res, idParam, value))
          \/ DeleteById(res, idParam)) =>
         /\ ~IsNumeric(idParam) => answer'.status = 400 /\ stored' = stored
         /\ (IsNumeric(idParam)
               /\ \A r \in stored[res] : r.id # DigitsValue(idParam)) =>
              answer'.status = 404 /\ stored' = stored
         /\ (DeleteById(res, idParam) /\ answer'.status = 200) =>
              /\ IsNumeric(idParam)
              /\ stored'[res] = {r \in stored[res] : r.id # DigitsValue(idParam)}
              /\ Cardinality(stored'[res]) = Cardinality(stored[res]) - 1
              /\ \A o \in Resources \ {res} : stored'[o] = stored[o]]_vars

====
